---- MODULE Spec2Model ----
(***************************************************************************)
(* MemStorage, the in-memory data-access layer of the rental application:  *)
(* six entity maps keyed by store-assigned ids, the occupancy bookkeeping  *)
(* embedded in the tenant mutations, and the landlord-scoped join queries. *)
(***************************************************************************)
EXTENDS Integers, Sequences, FiniteSets, TLC

VARIABLES userMap, propertyMap, unitMap, tenantMap, paymentMap,
          notificationMap, currentId, issued, last, calls, clock

store == <<userMap, propertyMap, unitMap, tenantMap, paymentMap,
           notificationMap, currentId>>

vars == <<userMap, propertyMap, unitMap, tenantMap, paymentMap,
          notificationMap, currentId, issued, last, calls, clock>>

(***************************************************************************)
(* Bounds of the model.                                                    *)
(***************************************************************************)
\* Units and tenants the unit and tenant calls of Spec create.
MaxUnits == 2

MaxTenants == 1

\* Tenants the tenant calls of SpecTenantOps create, on MaxUnits units.
MaxTenantRows == 3

\* Rows of all entity types together that the calls of SpecStore create.
MaxCreates == 3

\* Properties, units, tenants and payments (each) that SpecQuery creates.
MaxRows == 1

\* Storage calls in flight at once in SpecAsync.
MaxCalls == 2

\* Notifications that SpecNotify creates.
MaxNotifications == 3

\* The latest instant the clock shows.
MaxClock == 2

\* Payments that SpecIncome and SpecTotals create.
MaxPayments == 2

\* Payments that SpecActivity creates.
MaxActivity == 12

EntityTypes == {"user", "property", "unit", "tenant", "payment", "notification"}

LandlordIds == {1, 2}

UserIds == {1, 2}

(***************************************************************************)
(* A JavaScript Map as the sequence of its rows in insertion order, which  *)
(* is the order Array.from(map.values()) yields.  The key of a row is its  *)
(* id.                                                                     *)
(***************************************************************************)
undefined == [undefined |-> TRUE]

MapHas(m, id) == \E i \in 1 .. Len(m) : m[i].id = id

MapGet(m, id) ==
    IF MapHas(m, id)
    THEN m[CHOOSE i \in 1 .. Len(m) : m[i].id = id]
    ELSE undefined

MapSet(m, id, row) ==
    IF MapHas(m, id)
    THEN [i \in 1 .. Len(m) |-> IF m[i].id = id THEN row ELSE m[i]]
    ELSE Append(m, row)

\* A variant of MapDelete that removes the oldest row, whatever its id.
MapDeleteHead(m, id) == IF m = <<>> THEN m ELSE Tail(m)

MapDelete(m, id) == SelectSeq(m, LAMBDA r : r.id # id)

Ids(m) == {m[i].id : i \in 1 .. Len(m)}

Rows(m) == {m[i] : i \in 1 .. Len(m)}

\* A variant of Spread in which the fields of row win over those of data.
SpreadUnder(row, data) ==
    [f \in DOMAIN row \cup DOMAIN data |->
        IF f \in DOMAIN row THEN row[f] ELSE data[f]]

\* { ...row, ...data }: every field of data replaces or adds to row's.
Spread(row, data) ==
    [f \in DOMAIN row \cup DOMAIN data |->
        IF f \in DOMAIN data THEN data[f] ELSE row[f]]

\* The partial record with no field.
NoFields == [f \in {} |-> 0]

\* JavaScript truthiness of an optional numeric field of a partial record.
Truthy(data, f) == f \in DOMAIN data /\ data[f] # 0

(***************************************************************************)
(* Inputs of the calls.                                                    *)
(***************************************************************************)
\* Ids a caller passes in a field: 0 (falsy in JavaScript, never issued) to n.
RefIds(n) == 0 .. n

InsertUsers == {[userType |-> "tenant"]}

InsertProperties == {[landlordId |-> l] : l \in LandlordIds}

InsertUnits(n) == {[propertyId |-> p, isOccupied |-> o] : p \in 1 .. n, o \in BOOLEAN}

InsertTenants(n) ==
    {[userId |-> 1, unitId |-> u, isActive |-> a] : u \in 1 .. n, a \in BOOLEAN}

\* A payment_date that is not set.
null == [null |-> TRUE]

InsertPayments(n) ==
    {[tenantId |-> t, amount |-> 1, dueDate |-> 0, paymentDate |-> null,
      status |-> "pending"] : t \in 1 .. n}

InsertNotifications == {[userId |-> 1, isRead |-> FALSE]}

PartialProperties == {NoFields} \cup {[landlordId |-> l] : l \in LandlordIds}

PartialUnits == {NoFields} \cup {[isOccupied |-> o] : o \in BOOLEAN}

PartialTenants(n) ==
    {NoFields}
    \cup {[unitId |-> u] : u \in RefIds(n)}
    \cup {[isActive |-> a] : a \in BOOLEAN}
    \cup {[unitId |-> u, isActive |-> a] : u \in RefIds(n), a \in BOOLEAN}

PartialPayments == {NoFields, [status |-> "paid"]}

PartialNotifications == {NoFields, [isRead |-> TRUE]}

(***************************************************************************)
(* Id generation and the record of the last completed call.                *)
(***************************************************************************)
MapOf(type) ==
    CASE type = "user" -> userMap
      [] type = "property" -> propertyMap
      [] type = "unit" -> unitMap
      [] type = "tenant" -> tenantMap
      [] type = "payment" -> paymentMap
      [] type = "notification" -> notificationMap

\* A variant of NextId that numbers a new row after the rows now stored.
NextIdBySize(type) == Len(MapOf(type)) + 1

\* const id = this.currentId.<type>++ : the value before the increment.
NextId(type) == currentId[type]

Issue(type, id) ==
    /\ currentId' = [currentId EXCEPT ![type] = @ + 1]
    /\ issued' = [issued EXCEPT ![type] = Append(@, id)]

Returned(op, id, data, old, ret) ==
    last' = [op |-> op, id |-> id, data |-> data, old |-> old, ret |-> ret]

(***************************************************************************)
(* User operations.                                                        *)
(***************************************************************************)
getUser(id) == MapGet(userMap, id)

getUserByUsername(username) ==
    LET found == SelectSeq(userMap, LAMBDA user : user.username = username)
    IN  IF Len(found) = 0 THEN undefined ELSE Head(found)

createUser(insertUser) ==
    LET id == NextId("user")
        user == Spread(insertUser, [id |-> id, createdAt |-> clock])
    IN  /\ userMap' = MapSet(userMap, id, user)
        /\ Issue("user", id)
        /\ Returned("createUser", id, insertUser, undefined, user)
        /\ UNCHANGED <<clock, propertyMap, unitMap, tenantMap, paymentMap,
                       notificationMap, calls>>

(***************************************************************************)
(* Property operations.                                                    *)
(***************************************************************************)
getProperty(id) == MapGet(propertyMap, id)

getPropertiesByLandlord(landlordId) ==
    SelectSeq(propertyMap, LAMBDA property : property.landlordId = landlordId)

createProperty(insertProperty) ==
    LET id == NextId("property")
        property == Spread(insertProperty, [id |-> id, createdAt |-> clock])
    IN  /\ propertyMap' = MapSet(propertyMap, id, property)
        /\ Issue("property", id)
        /\ Returned("createProperty", id, insertProperty, undefined, property)
        /\ UNCHANGED <<clock, userMap, unitMap, tenantMap, paymentMap,
                       notificationMap, calls>>

\* A variant of MergedInto that stores data under id when id is absent.
MergedOrInserted(m, id, data) ==
    MapSet(m, id, Spread(IF MapHas(m, id) THEN MapGet(m, id) ELSE [id |-> id], data))

\* The map after update<Entity>(id, data): untouched when id is absent.
MergedInto(m, id, data) ==
    IF MapHas(m, id) THEN MapSet(m, id, Spread(MapGet(m, id), data)) ELSE m

updateProperty(id, propertyData) ==
    /\ propertyMap' = MergedInto(propertyMap, id, propertyData)
    /\ Returned("updateProperty", id, propertyData, getProperty(id),
                MapGet(propertyMap', id))
    /\ UNCHANGED <<clock, userMap, unitMap, tenantMap, paymentMap, notificationMap,
                   currentId, issued, calls>>

deleteProperty(id) ==
    /\ propertyMap' = MapDelete(propertyMap, id)
    /\ Returned("deleteProperty", id, NoFields, getProperty(id),
                MapHas(propertyMap, id))
    /\ UNCHANGED <<clock, userMap, unitMap, tenantMap, paymentMap, notificationMap,
                   currentId, issued, calls>>

(***************************************************************************)
(* Unit operations.                                                        *)
(***************************************************************************)
getUnit(id) == MapGet(unitMap, id)

getUnitsByProperty(propertyId) ==
    SelectSeq(unitMap, LAMBDA unit : unit.propertyId = propertyId)

createUnit(insertUnit) ==
    LET id == NextId("unit")
        unit == Spread(insertUnit, [id |-> id, createdAt |-> clock])
    IN  /\ unitMap' = MapSet(unitMap, id, unit)
        /\ Issue("unit", id)
        /\ Returned("createUnit", id, insertUnit, undefined, unit)
        /\ UNCHANGED <<clock, userMap, propertyMap, tenantMap, paymentMap,
                       notificationMap, calls>>

updateUnit(id, unitData) ==
    /\ unitMap' = MergedInto(unitMap, id, unitData)
    /\ Returned("updateUnit", id, unitData, getUnit(id), MapGet(unitMap', id))
    /\ UNCHANGED <<clock, userMap, propertyMap, tenantMap, paymentMap,
                   notificationMap, currentId, issued, calls>>

\* A variant of deleteUnit that also removes the tenants of the unit.
deleteUnitCascading(id) ==
    /\ unitMap' = MapDelete(unitMap, id)
    /\ tenantMap' = SelectSeq(tenantMap, LAMBDA tenant : tenant.unitId # id)
    /\ Returned("deleteUnit", id, NoFields, getUnit(id), MapHas(unitMap, id))
    /\ UNCHANGED <<clock, userMap, propertyMap, paymentMap, notificationMap,
                   currentId, issued, calls>>

deleteUnit(id) ==
    /\ unitMap' = MapDelete(unitMap, id)
    /\ Returned("deleteUnit", id, NoFields, getUnit(id), MapHas(unitMap, id))
    /\ UNCHANGED <<clock, userMap, propertyMap, tenantMap, paymentMap,
                   notificationMap, currentId, issued, calls>>

(***************************************************************************)
(* Tenant operations, with the occupancy bookkeeping of the units.         *)
(***************************************************************************)
getTenant(id) == MapGet(tenantMap, id)

getTenantByUserId(userId) ==
    LET found == SelectSeq(tenantMap, LAMBDA tenant : tenant.userId = userId)
    IN  IF Len(found) = 0 THEN undefined ELSE Head(found)

\* A variant of otherTenants that forgets to leave out the tenant itself.
otherTenantsWithSelf(tm, id, unitId) ==
    SelectSeq(tm, LAMBDA t : t.unitId = unitId /\ t.isActive)

\* The active tenants of unit unitId other than tenant id, among rows tm.
otherTenants(tm, id, unitId) ==
    SelectSeq(tm, LAMBDA t : t.id # id /\ t.unitId = unitId /\ t.isActive)

\* A variant of createTenantUnitData that follows the tenant's isActive.
createTenantUnitDataIfActive(tenant) == [isOccupied |-> tenant.isActive]

\* What createTenant writes into the unit of the new tenant.
createTenantUnitData(tenant) == [isOccupied |-> TRUE]

\* A variant of newUnitData that follows the moved tenant's isActive.
newUnitDataIfActive(tenant, tenantData) ==
    [isOccupied |-> Spread(tenant, tenantData).isActive]

\* What updateTenant writes into the unit the tenant moves to.
newUnitData(tenant, tenantData) == [isOccupied |-> TRUE]

\* A variant of unitIdChanges that takes every unitId given for a change.
unitIdGiven(tenant, tenantData) == Truthy(tenantData, "unitId")

\* if (tenantData.unitId && tenantData.unitId !== tenant.unitId)
unitIdChanges(tenant, tenantData) ==
    Truthy(tenantData, "unitId") /\ tenantData.unitId # tenant.unitId

\* The units after the old unit's occupancy is recomputed for a tenant that
\* leaves it (update) or is removed (delete).
oldUnitReleased(um, tm, id, unitId) ==
    IF MapHas(um, unitId) /\ Len(otherTenants(tm, id, unitId)) = 0
    THEN MergedInto(um, unitId, [isOccupied |-> FALSE])
    ELSE um

createTenant(insertTenant) ==
    LET id == NextId("tenant")
        tenant == Spread(insertTenant, [id |-> id, createdAt |-> clock])
    IN  /\ tenantMap' = MapSet(tenantMap, id, tenant)
        /\ Issue("tenant", id)
        /\ unitMap' = IF MapHas(unitMap, tenant.unitId)
                      THEN MergedInto(unitMap, tenant.unitId,
                                      createTenantUnitData(tenant))
                      ELSE unitMap
        /\ Returned("createTenant", id, insertTenant, undefined, tenant)
        /\ UNCHANGED <<clock, userMap, propertyMap, paymentMap, notificationMap, calls>>

updateTenant(id, tenantData) ==
    LET tenant == getTenant(id)
    IN  IF tenant = undefined
        THEN /\ Returned("updateTenant", id, tenantData, undefined, undefined)
             /\ UNCHANGED <<clock, store, issued, calls>>
        ELSE LET released == oldUnitReleased(unitMap, tenantMap, id, tenant.unitId)
                 updatedTenant == Spread(tenant, tenantData)
             IN  /\ unitMap' =
                        IF unitIdChanges(tenant, tenantData)
                        THEN IF MapHas(unitMap, tenantData.unitId)
                             THEN MergedInto(released, tenantData.unitId,
                                             newUnitData(tenant, tenantData))
                             ELSE released
                        ELSE unitMap
                 /\ tenantMap' = MapSet(tenantMap, id, updatedTenant)
                 /\ Returned("updateTenant", id, tenantData, tenant, updatedTenant)
                 /\ UNCHANGED <<clock, userMap, propertyMap, paymentMap,
                                notificationMap, currentId, issued, calls>>

deleteTenant(id) ==
    LET tenant == getTenant(id)
    IN  /\ unitMap' = IF tenant # undefined
                      THEN oldUnitReleased(unitMap, tenantMap, id, tenant.unitId)
                      ELSE unitMap
        /\ tenantMap' = MapDelete(tenantMap, id)
        /\ Returned("deleteTenant", id, NoFields, tenant, MapHas(tenantMap, id))
        /\ UNCHANGED <<clock, userMap, propertyMap, paymentMap, notificationMap,
                       currentId, issued, calls>>

\* A variant of getTenantsByLandlord that takes the units of every property.
getTenantsOfAllUnits(landlordId) ==
    LET unitIds == Ids(unitMap)
        tenants == SelectSeq(tenantMap, LAMBDA tenant : tenant.unitId \in unitIds)
    IN  [i \in 1 .. Len(tenants) |->
            LET tenant == tenants[i]
                user == MapGet(userMap, tenant.userId)
                unit == MapGet(unitMap, tenant.unitId)
                property == MapGet(propertyMap, unit.propertyId)
            IN  Spread(tenant,
                       [user |-> user, unit |-> Spread(unit, [property |-> property])])]

\* What a call raises when it reads a field of undefined.  A call that
\* returns a list and raises while it builds the list is modelled by a list
\* that holds TypeError.
TypeError == [error |-> "TypeError"]

Raised(list) == \E i \in 1 .. Len(list) : list[i] = TypeError

\* A variant of getTenantsByLandlord that takes every stored tenant.
getTenantsOfAnyUnit(landlordId) ==
    LET tenants == tenantMap
    IN  [i \in 1 .. Len(tenants) |->
            LET tenant == tenants[i]
                user == MapGet(userMap, tenant.userId)
                unit == MapGet(unitMap, tenant.unitId)
            IN  IF unit = undefined
                THEN TypeError
                ELSE Spread(tenant,
                            [user |-> user,
                             unit |-> Spread(unit,
                                             [property |-> MapGet(propertyMap,
                                                                  unit.propertyId)])])]

\* A variant of getTenantsByLandlord that goes from each stored tenant to its
\* unit, and so also takes the tenants whose unit is not stored.
getTenantsThroughUnit(landlordId) ==
    LET propertyIds == Ids(getPropertiesByLandlord(landlordId))
        tenants ==
            SelectSeq(tenantMap,
                      LAMBDA tenant :
                          \/ MapGet(unitMap, tenant.unitId) = undefined
                          \/ MapGet(unitMap, tenant.unitId).propertyId \in propertyIds)
    IN  [i \in 1 .. Len(tenants) |->
            LET tenant == tenants[i]
                user == MapGet(userMap, tenant.userId)
                unit == MapGet(unitMap, tenant.unitId)
            IN  IF unit = undefined
                THEN TypeError
                ELSE Spread(tenant,
                            [user |-> user,
                             unit |-> Spread(unit,
                                             [property |-> MapGet(propertyMap,
                                                                  unit.propertyId)])])]

\* The tenants of the landlord's units, each with its user and its unit and
\* property; unit.propertyId raises when the tenant's unit is not stored.
getTenantsByLandlord(landlordId) ==
    LET properties == getPropertiesByLandlord(landlordId)
        propertyIds == Ids(properties)
        units == SelectSeq(unitMap, LAMBDA unit : unit.propertyId \in propertyIds)
        unitIds == Ids(units)
        tenants == SelectSeq(tenantMap, LAMBDA tenant : tenant.unitId \in unitIds)
    IN  [i \in 1 .. Len(tenants) |->
            LET tenant == tenants[i]
                user == MapGet(userMap, tenant.userId)
                unit == MapGet(unitMap, tenant.unitId)
            IN  IF unit = undefined
                THEN TypeError
                ELSE Spread(tenant,
                            [user |-> user,
                             unit |-> Spread(unit,
                                             [property |-> MapGet(propertyMap,
                                                                  unit.propertyId)])])]

(***************************************************************************)
(* Payment operations.                                                     *)
(***************************************************************************)
getPayment(id) == MapGet(paymentMap, id)

getPaymentsByTenant(tenantId) ==
    SelectSeq(paymentMap, LAMBDA payment : payment.tenantId = tenantId)

getPaymentsByLandlord(landlordId) ==
    LET tenants == getTenantsByLandlord(landlordId)
    IN  IF Raised(tenants)
        THEN <<TypeError>>
        ELSE LET tenantIds == Ids(tenants)
                 payments == SelectSeq(paymentMap,
                                       LAMBDA payment : payment.tenantId \in tenantIds)
             IN  [i \in 1 .. Len(payments) |->
                     Spread(payments[i],
                            [tenant |-> MapGet(tenants, payments[i].tenantId)])]

createPayment(insertPayment) ==
    LET id == NextId("payment")
        payment == Spread(insertPayment, [id |-> id, createdAt |-> clock])
    IN  /\ paymentMap' = MapSet(paymentMap, id, payment)
        /\ Issue("payment", id)
        /\ Returned("createPayment", id, insertPayment, undefined, payment)
        /\ UNCHANGED <<clock, userMap, propertyMap, unitMap, tenantMap,
                       notificationMap, calls>>

updatePayment(id, paymentData) ==
    /\ paymentMap' = MergedInto(paymentMap, id, paymentData)
    /\ Returned("updatePayment", id, paymentData, getPayment(id),
                MapGet(paymentMap', id))
    /\ UNCHANGED <<clock, userMap, propertyMap, unitMap, tenantMap, notificationMap,
                   currentId, issued, calls>>

deletePayment(id) ==
    /\ paymentMap' = MapDelete(paymentMap, id)
    /\ Returned("deletePayment", id, NoFields, getPayment(id),
                MapHas(paymentMap, id))
    /\ UNCHANGED <<clock, userMap, propertyMap, unitMap, tenantMap, notificationMap,
                   currentId, issued, calls>>

(***************************************************************************)
(* Notification operations.                                                *)
(***************************************************************************)
getNotification(id) == MapGet(notificationMap, id)

\* A variant of InsertNewestFirst that orders by createdAt ascending.
RECURSIVE InsertOldestFirst(_, _)
InsertOldestFirst(sorted, row) ==
    IF sorted = <<>> THEN <<row>>
    ELSE IF Head(sorted).createdAt <= row.createdAt
         THEN <<Head(sorted)>> \o InsertOldestFirst(Tail(sorted), row)
         ELSE <<row>> \o sorted

\* row put into a list sorted with (a, b) => b.createdAt - a.createdAt, behind
\* the rows that compare equal to it: Array.prototype.sort is stable.
RECURSIVE InsertNewestFirst(_, _)
InsertNewestFirst(sorted, row) ==
    IF sorted = <<>> THEN <<row>>
    ELSE IF Head(sorted).createdAt >= row.createdAt
         THEN <<Head(sorted)>> \o InsertNewestFirst(Tail(sorted), row)
         ELSE <<row>> \o sorted

\* list.sort((a, b) => b.createdAt.getTime() - a.createdAt.getTime())
RECURSIVE SortNewestFirst(_)
SortNewestFirst(list) ==
    IF list = <<>> THEN <<>>
    ELSE InsertNewestFirst(SortNewestFirst(SubSeq(list, 1, Len(list) - 1)),
                           list[Len(list)])

getNotificationsByUser(userId) ==
    SortNewestFirst(SelectSeq(notificationMap,
                              LAMBDA notification : notification.userId = userId))

createNotification(insertNotification) ==
    LET id == NextId("notification")
        notification == Spread(insertNotification, [id |-> id, createdAt |-> clock])
    IN  /\ notificationMap' = MapSet(notificationMap, id, notification)
        /\ Issue("notification", id)
        /\ Returned("createNotification", id, insertNotification, undefined,
                    notification)
        /\ UNCHANGED <<clock, userMap, propertyMap, unitMap, tenantMap, paymentMap, calls>>

updateNotification(id, notificationData) ==
    /\ notificationMap' = MergedInto(notificationMap, id, notificationData)
    /\ Returned("updateNotification", id, notificationData, getNotification(id),
                MapGet(notificationMap', id))
    /\ UNCHANGED <<clock, userMap, propertyMap, unitMap, tenantMap, paymentMap,
                   currentId, issued, calls>>

deleteNotification(id) ==
    /\ notificationMap' = MapDelete(notificationMap, id)
    /\ Returned("deleteNotification", id, NoFields, getNotification(id),
                MapHas(notificationMap, id))
    /\ UNCHANGED <<clock, userMap, propertyMap, unitMap, tenantMap, paymentMap,
                   currentId, issued, calls>>

markNotificationAsRead(id) ==
    /\ notificationMap' = MergedInto(notificationMap, id, [isRead |-> TRUE])
    /\ Returned("markNotificationAsRead", id, NoFields, getNotification(id),
                MapGet(notificationMap', id))
    /\ UNCHANGED <<clock, userMap, propertyMap, unitMap, tenantMap, paymentMap,
                   currentId, issued, calls>>

(***************************************************************************)
(* The dashboard of a landlord.  An instant is a number of the clock; a    *)
(* Date set by a caller is [time |-> instant].  The calendar puts instant  *)
(* 0 at the start of December 2024 and two instants into every month, and  *)
(* one call reads the clock once.                                          *)
(***************************************************************************)
Calendar == [year |-> 2024, month |-> 11, instantsPerMonth |-> 2]

\* Months since year 0 of the month an instant falls into.
MonthsAt(instant) ==
    Calendar.year * 12 + Calendar.month + (instant \div Calendar.instantsPerMonth)

getFullYear(instant) == MonthsAt(instant) \div 12

getMonth(instant) == MonthsAt(instant) % 12

\* A variant of FirstOfMonth without the carry into the year.
FirstOfMonthNoCarry(year, month) == [year |-> year, month |-> month % 12]

\* new Date(year, month, 1) for a month index that may lie outside 0 .. 11:
\* the year and month of the first day, after the constructor's carry.
FirstOfMonth(year, month) ==
    [year |-> year + (month \div 12), month |-> month % 12]

\* `${monthName} '${yearShort}`: the month's name stands for the month, and
\* yearShort is the year's digits from the third on.
MonthLabel(date) == [monthName |-> date.month, yearShort |-> date.year % 100]

\* Number(p.amount), for amounts that are whole numbers.
Number(amount) == amount

\* list.reduce((sum, p) => sum + Number(p.amount), 0)
RECURSIVE SumOfAmounts(_)
SumOfAmounts(list) ==
    IF list = <<>> THEN 0
    ELSE SumOfAmounts(SubSeq(list, 1, Len(list) - 1)) + Number(list[Len(list)].amount)

\* Rows of tenantActivity: .slice(0, 10)
ActivityLimit == 10

\* Entries of monthlyIncome: for (let i = 5; i >= 0; i--)
MonthsShown == 6

\* A variant of upcomingPayments that takes a payment due now as upcoming.
upcomingOrDueNow(payments, now) ==
    SelectSeq(payments, LAMBDA p : p.status = "pending" /\ p.dueDate >= now)

upcomingPayments(payments, now) ==
    SelectSeq(payments, LAMBDA p : p.status = "pending" /\ p.dueDate > now)

\* A variant of overduePayments that leaves out the payments marked overdue.
overduePendingOnly(payments, now) ==
    SelectSeq(payments, LAMBDA p : p.status = "pending" /\ p.dueDate < now)

overduePayments(payments, now) ==
    SelectSeq(payments,
              LAMBDA p : p.status = "overdue"
                             \/ (p.status = "pending" /\ p.dueDate < now))

\* A variant of monthPayments that goes by the due date.
monthPaymentsByDueDate(payments, month) ==
    SelectSeq(payments,
              LAMBDA p : /\ getMonth(p.dueDate) = month.month
                         /\ getFullYear(p.dueDate) = month.year
                         /\ p.status = "paid")

\* The payments paid in the month of the date month.
monthPayments(payments, month) ==
    SelectSeq(payments,
              LAMBDA p : /\ p.paymentDate # null
                         /\ getMonth(p.paymentDate.time) = month.month
                         /\ getFullYear(p.paymentDate.time) = month.year
                         /\ p.status = "paid")

\* A variant of tenantActivity that keeps the payments in stored order.
tenantActivityUnsorted(payments) ==
    SubSeq(payments, 1, IF Len(payments) < ActivityLimit THEN Len(payments)
                        ELSE ActivityLimit)

tenantActivity(payments) ==
    SubSeq(SortNewestFirst(payments), 1,
           IF Len(payments) < ActivityLimit THEN Len(payments) ELSE ActivityLimit)

monthlyIncome(payments, today) ==
    [k \in 1 .. MonthsShown |->
        LET i == MonthsShown - k
            month == FirstOfMonth(getFullYear(today), getMonth(today) - i)
        IN  [month |-> MonthLabel(month),
             amount |-> SumOfAmounts(monthPayments(payments, month))]]

\* payments.sort(...) sorts the list of getPaymentsByLandlord in place, so the
\* months are summed over the sorted list; the totals are summed over lists
\* filtered before the sort.
getDashboardData(landlordId) ==
    LET properties == getPropertiesByLandlord(landlordId)
        tenants == getTenantsByLandlord(landlordId)
        payments == getPaymentsByLandlord(landlordId)
        now == clock
        today == clock
    IN  IF Raised(tenants)
        THEN TypeError
        ELSE [propertiesCount |-> Len(properties),
              tenantsCount |-> Len(tenants),
              upcomingPaymentsTotal |-> SumOfAmounts(upcomingPayments(payments, now)),
              overduePaymentsTotal |-> SumOfAmounts(overduePayments(payments, now)),
              properties |->
                  [j \in 1 .. Len(properties) |->
                      Spread(properties[j],
                             [units |-> getUnitsByProperty(properties[j].id)])],
              tenantActivity |-> tenantActivity(payments),
              monthlyIncome |-> monthlyIncome(SortNewestFirst(payments), today)]

\* A variant of callGetDashboardData that stores the pending payments due
\* before the call as overdue.
callGetDashboardDataPromoting(landlordId) ==
    /\ Returned("getDashboardData", landlordId, NoFields, [time |-> clock],
                getDashboardData(landlordId))
    /\ paymentMap' =
          [j \in 1 .. Len(paymentMap) |->
              IF paymentMap[j].status = "pending" /\ paymentMap[j].dueDate < clock
              THEN Spread(paymentMap[j], [status |-> "overdue"])
              ELSE paymentMap[j]]
    /\ UNCHANGED <<clock, userMap, propertyMap, unitMap, tenantMap, notificationMap,
                   currentId, issued, calls>>

\* A call of getDashboardData at the instant the clock shows, kept in old:
\* the store is only read.
callGetDashboardData(landlordId) ==
    /\ Returned("getDashboardData", landlordId, NoFields, [time |-> clock],
                getDashboardData(landlordId))
    /\ UNCHANGED <<clock, store, issued, calls>>

(***************************************************************************)
(* The store after construction, and calls made one after another, each    *)
(* completing before the next starts.  Spec: the unit and tenant calls,    *)
(* which are the ones that read or write a unit's occupancy.               *)
(***************************************************************************)
NoCall == [op |-> "none", id |-> 0, data |-> NoFields, old |-> undefined,
           ret |-> undefined]

Init ==
    /\ userMap = <<>>
    /\ propertyMap = <<>>
    /\ unitMap = <<>>
    /\ tenantMap = <<>>
    /\ paymentMap = <<>>
    /\ notificationMap = <<>>
    /\ currentId = [t \in EntityTypes |-> 1]
    /\ issued = [t \in EntityTypes |-> <<>>]
    /\ last = NoCall
    /\ calls = <<>>
    /\ clock = 0

Next ==
    \/ \E u \in InsertUnits(1) : currentId.unit <= MaxUnits /\ createUnit(u)
    \/ \E id \in 1 .. MaxUnits, d \in PartialUnits : updateUnit(id, d)
    \/ \E id \in 1 .. MaxUnits : deleteUnit(id)
    \/ \E t \in InsertTenants(MaxUnits) :
          currentId.tenant <= MaxTenants /\ createTenant(t)
    \/ \E id \in 1 .. MaxTenants, d \in PartialTenants(MaxUnits) :
          updateTenant(id, d)
    \/ \E id \in 1 .. MaxTenants : deleteTenant(id)

Spec == Init /\ [][Next]_vars

(***************************************************************************)
(* SpecTenantOps: only createTenant, updateTenant and deleteTenant, on a   *)
(* store in which MaxUnits units were created unoccupied and no tenant     *)
(* exists yet.                                                             *)
(***************************************************************************)
FreeUnit(id) ==
    [propertyId |-> 1, isOccupied |-> FALSE, id |-> id, createdAt |-> 0]

InitTenantOps ==
    /\ userMap = <<>>
    /\ propertyMap = <<>>
    /\ unitMap = [id \in 1 .. MaxUnits |-> FreeUnit(id)]
    /\ tenantMap = <<>>
    /\ paymentMap = <<>>
    /\ notificationMap = <<>>
    /\ currentId = [t \in EntityTypes |-> IF t = "unit" THEN MaxUnits + 1 ELSE 1]
    /\ issued = [t \in EntityTypes |->
                    IF t = "unit" THEN [id \in 1 .. MaxUnits |-> id] ELSE <<>>]
    /\ last = [op |-> "createUnit", id |-> MaxUnits,
               data |-> [propertyId |-> 1, isOccupied |-> FALSE],
               old |-> undefined, ret |-> FreeUnit(MaxUnits)]
    /\ calls = <<>>
    /\ clock = 0

NextTenantOps ==
    \/ \E t \in InsertTenants(MaxUnits) :
          currentId.tenant <= MaxTenantRows /\ createTenant(t)
    \/ \E id \in 1 .. MaxTenantRows, d \in PartialTenants(MaxUnits) :
          updateTenant(id, d)
    \/ \E id \in 1 .. MaxTenantRows : deleteTenant(id)

SpecTenantOps == InitTenantOps /\ [][NextTenantOps]_vars

(***************************************************************************)
(* SpecStore: the create, update and delete calls of all six entity types  *)
(* on a fresh store, MaxCreates rows being created in all.                 *)
(***************************************************************************)
Created ==
    currentId.user + currentId.property + currentId.unit + currentId.tenant
        + currentId.payment + currentId.notification - Cardinality(EntityTypes)

StoreIds == 1 .. MaxCreates

NextStore ==
    \/ \E u \in InsertUsers : Created < MaxCreates /\ createUser(u)
    \/ Created < MaxCreates /\ createProperty([landlordId |-> 1])
    \/ Created < MaxCreates /\ createUnit([propertyId |-> 1, isOccupied |-> FALSE])
    \/ Created < MaxCreates
          /\ createTenant([userId |-> 1, unitId |-> 1, isActive |-> TRUE])
    \/ \E p \in InsertPayments(1) : Created < MaxCreates /\ createPayment(p)
    \/ \E n \in InsertNotifications : Created < MaxCreates /\ createNotification(n)
    \/ \E id \in StoreIds : updateProperty(id, [landlordId |-> 2])
    \/ \E id \in StoreIds : updateUnit(id, [isOccupied |-> TRUE])
    \/ \E id \in StoreIds : updateTenant(id, [unitId |-> 1])
    \/ \E id \in StoreIds : updatePayment(id, [status |-> "paid"])
    \/ \E id \in StoreIds : updateNotification(id, [isRead |-> TRUE])
    \/ \E id \in StoreIds : markNotificationAsRead(id)
    \/ \E id \in StoreIds : deleteProperty(id)
    \/ \E id \in StoreIds : deleteUnit(id)
    \/ \E id \in StoreIds : deleteTenant(id)
    \/ \E id \in StoreIds : deletePayment(id)
    \/ \E id \in StoreIds : deleteNotification(id)

SpecStore == Init /\ [][NextStore]_vars

(***************************************************************************)
(* SpecQuery: properties of both landlords, their units, tenants and       *)
(* payments are created, re-assigned and deleted, MaxRows rows of each     *)
(* type being created, and the landlord queries are called in between.     *)
(* The first tenant created is inactive, the later ones are active.        *)
(***************************************************************************)
QueryIds == 1 .. MaxRows

\* A call of getPaymentsByLandlord: the store is only read.
callGetPaymentsByLandlord(landlordId) ==
    /\ Returned("getPaymentsByLandlord", landlordId, NoFields, undefined,
                getPaymentsByLandlord(landlordId))
    /\ UNCHANGED <<clock, store, issued, calls>>

\* A call of getPropertiesByLandlord: the store is only read.
callGetPropertiesByLandlord(landlordId) ==
    /\ Returned("getPropertiesByLandlord", landlordId, NoFields, undefined,
                getPropertiesByLandlord(landlordId))
    /\ UNCHANGED <<clock, store, issued, calls>>

\* A call of getTenantsByLandlord: the store is only read.
callGetTenantsByLandlord(landlordId) ==
    /\ Returned("getTenantsByLandlord", landlordId, NoFields, undefined,
                getTenantsByLandlord(landlordId))
    /\ UNCHANGED <<clock, store, issued, calls>>

NextQuery ==
    \/ \E p \in InsertProperties : currentId.property <= MaxRows /\ createProperty(p)
    \/ \E p \in QueryIds :
          /\ currentId.unit <= MaxRows
          /\ createUnit([propertyId |-> p, isOccupied |-> FALSE])
    \/ \E u \in QueryIds :
          /\ currentId.tenant <= MaxRows
          /\ createTenant([userId |-> 1, unitId |-> u,
                           isActive |-> currentId.tenant > 1])
    \/ \E p \in InsertPayments(MaxRows) :
          currentId.payment <= MaxRows /\ createPayment(p)
    \/ \E id \in QueryIds, l \in LandlordIds : updateProperty(id, [landlordId |-> l])
    \/ \E id \in QueryIds, u \in QueryIds : updateTenant(id, [unitId |-> u])
    \/ \E id \in QueryIds : deleteProperty(id)
    \/ \E id \in QueryIds : deleteUnit(id)
    \/ \E id \in QueryIds : deleteTenant(id)
    \/ \E l \in LandlordIds : callGetPaymentsByLandlord(l)
    \/ \E l \in LandlordIds : callGetTenantsByLandlord(l)

SpecQuery == Init /\ [][NextQuery]_vars

(***************************************************************************)
(* SpecDangling: properties of both landlords, units, tenants and payments *)
(* of tenant 1 are created, referring to rows stored or not, tenants move, *)
(* and properties, units and tenants are deleted under the rows that refer *)
(* to them; the four landlord queries are called in between.               *)
(***************************************************************************)
NextDangling ==
    \/ \E p \in InsertProperties : currentId.property <= MaxRows /\ createProperty(p)
    \/ \E p \in QueryIds :
          /\ currentId.unit <= MaxRows
          /\ createUnit([propertyId |-> p, isOccupied |-> FALSE])
    \/ \E u \in QueryIds :
          /\ currentId.tenant <= MaxRows
          /\ createTenant([userId |-> 1, unitId |-> u, isActive |-> TRUE])
    \/ \E p \in InsertPayments(1) :
          currentId.payment <= MaxRows /\ createPayment(p)
    \/ \E id \in QueryIds, u \in QueryIds : updateTenant(id, [unitId |-> u])
    \/ \E id \in QueryIds : deleteProperty(id)
    \/ \E id \in QueryIds : deleteUnit(id)
    \/ \E id \in QueryIds : deleteTenant(id)
    \/ \E l \in LandlordIds : callGetPropertiesByLandlord(l)
    \/ \E l \in LandlordIds : callGetTenantsByLandlord(l)
    \/ \E l \in LandlordIds : callGetPaymentsByLandlord(l)
    \/ \E l \in LandlordIds : callGetDashboardData(l)

SpecDangling == Init /\ [][NextDangling]_vars

(***************************************************************************)
(* SpecAsync: tenant calls in flight together.  The storage methods are    *)
(* async functions: a call runs until its next await, where it is          *)
(* suspended and its continuation is queued behind the continuations       *)
(* queued before it; calls holds the suspended calls in that order, with   *)
(* what each has read so far.  A method called under an await (getUnit,    *)
(* updateUnit) runs when it is called, before the caller is suspended.     *)
(***************************************************************************)
FreeCall ==
    CHOOSE n \in 1 .. MaxCalls : \A i \in 1 .. Len(calls) : calls[i].call # n

Suspend(op, id, data, pc, tenant, unit) ==
    [call |-> FreeCall, op |-> op, id |-> id, data |-> data, pc |-> pc,
     tenant |-> tenant, unit |-> unit, newUnit |-> undefined]

\* Where a call stands after running up to its next await or its return.
Outcome(um, tm, pc, ret) == [um |-> um, tm |-> tm, pc |-> pc, ret |-> ret]

\* createTenant from the value of getUnit on.
createTenantGotUnit(um, tm, c) ==
    IF c.unit # undefined
    THEN Outcome(MergedInto(um, c.unit.id, createTenantUnitData(c.tenant)), tm,
                 "updateUnit", undefined)
    ELSE Outcome(um, tm, "return", c.tenant)

createTenantReturn(um, tm, c) == Outcome(um, tm, "return", c.tenant)

\* updateTenant: the merge of the tenant read at the start, and the return.
updateTenantSet(um, tm, c) ==
    Outcome(um, MapSet(tm, c.id, Spread(c.tenant, c.data)), "return",
            Spread(c.tenant, c.data))

\* updateTenant from if (newUnit) on.
updateTenantNewUnit(um, tm, c) ==
    IF c.newUnit # undefined
    THEN Outcome(MergedInto(um, c.newUnit.id, newUnitData(c.tenant, c.data)), tm,
                 "occupyNew", undefined)
    ELSE updateTenantSet(um, tm, c)

\* updateTenant from if (oldUnit) on.
updateTenantOldUnit(um, tm, c) ==
    IF c.unit # undefined /\ Len(otherTenants(tm, c.id, c.unit.id)) = 0
    THEN Outcome(MergedInto(um, c.unit.id, [isOccupied |-> FALSE]), tm,
                 "releaseOld", undefined)
    ELSE updateTenantNewUnit(um, tm, c)

\* deleteTenant: the removal of the row, and the return.
deleteTenantDelete(um, tm, c) ==
    Outcome(um, MapDelete(tm, c.id), "return", MapHas(tm, c.id))

\* deleteTenant from the value of getUnit on.
deleteTenantGotUnit(um, tm, c) ==
    IF c.unit # undefined /\ Len(otherTenants(tm, c.id, c.unit.id)) = 0
    THEN Outcome(MergedInto(um, c.unit.id, [isOccupied |-> FALSE]), tm,
                 "updateUnit", undefined)
    ELSE deleteTenantDelete(um, tm, c)

\* The head of the queue has run to outcome o: it returns, or is queued again.
Proceed(c, o) ==
    /\ unitMap' = o.um
    /\ tenantMap' = o.tm
    /\ IF o.pc = "return"
       THEN /\ calls' = Tail(calls)
            /\ Returned(c.op, c.id, c.data,
                        IF c.op = "createTenant" THEN undefined ELSE c.tenant, o.ret)
       ELSE /\ calls' = Append(Tail(calls), [c EXCEPT !.pc = o.pc])
            /\ last' = last
    /\ UNCHANGED <<clock, userMap, propertyMap, paymentMap, notificationMap,
                   currentId, issued>>

startCreateTenant(insertTenant) ==
    LET id == NextId("tenant")
        tenant == Spread(insertTenant, [id |-> id, createdAt |-> clock])
    IN  /\ Len(calls) < MaxCalls
        /\ tenantMap' = MapSet(tenantMap, id, tenant)
        /\ Issue("tenant", id)
        /\ calls' = Append(calls, Suspend("createTenant", id, insertTenant,
                                          "getUnit", tenant, getUnit(tenant.unitId)))
        /\ UNCHANGED <<clock, userMap, propertyMap, unitMap, paymentMap,
                       notificationMap, last>>

resumeCreateTenant ==
    /\ calls # <<>>
    /\ Head(calls).op = "createTenant"
    /\ LET c == Head(calls)
       IN  Proceed(c, IF c.pc = "getUnit"
                      THEN createTenantGotUnit(unitMap, tenantMap, c)
                      ELSE createTenantReturn(unitMap, tenantMap, c))

startUpdateTenant(id, tenantData) ==
    LET tenant == getTenant(id)
    IN  /\ Len(calls) < MaxCalls
        /\ IF tenant = undefined
           THEN /\ Returned("updateTenant", id, tenantData, undefined, undefined)
                /\ UNCHANGED <<clock, store, issued, calls>>
           ELSE IF unitIdChanges(tenant, tenantData)
           THEN /\ calls' = Append(calls, Suspend("updateTenant", id, tenantData,
                                                  "getOldUnit", tenant,
                                                  getUnit(tenant.unitId)))
                /\ UNCHANGED <<clock, store, issued, last>>
           ELSE /\ tenantMap' = MapSet(tenantMap, id, Spread(tenant, tenantData))
                /\ Returned("updateTenant", id, tenantData, tenant,
                            Spread(tenant, tenantData))
                /\ UNCHANGED <<clock, userMap, propertyMap, unitMap, paymentMap,
                               notificationMap, currentId, issued, calls>>

resumeUpdateTenant ==
    /\ calls # <<>>
    /\ Head(calls).op = "updateTenant"
    /\ LET c == Head(calls)
       IN  IF c.pc = "getOldUnit"
           THEN /\ calls' = Append(Tail(calls),
                                   [c EXCEPT !.pc = "getNewUnit",
                                             !.newUnit = getUnit(c.data.unitId)])
                /\ UNCHANGED <<clock, store, issued, last>>
           ELSE Proceed(c, CASE c.pc = "getNewUnit" ->
                                    updateTenantOldUnit(unitMap, tenantMap, c)
                             [] c.pc = "releaseOld" ->
                                    updateTenantNewUnit(unitMap, tenantMap, c)
                             [] c.pc = "occupyNew" ->
                                    updateTenantSet(unitMap, tenantMap, c))

startDeleteTenant(id) ==
    LET tenant == getTenant(id)
    IN  /\ Len(calls) < MaxCalls
        /\ IF tenant = undefined
           THEN /\ Returned("deleteTenant", id, NoFields, undefined, FALSE)
                /\ UNCHANGED <<clock, store, issued, calls>>
           ELSE /\ calls' = Append(calls, Suspend("deleteTenant", id, NoFields,
                                                  "getUnit", tenant,
                                                  getUnit(tenant.unitId)))
                /\ UNCHANGED <<clock, store, issued, last>>

resumeDeleteTenant ==
    /\ calls # <<>>
    /\ Head(calls).op = "deleteTenant"
    /\ LET c == Head(calls)
       IN  Proceed(c, IF c.pc = "getUnit"
                      THEN deleteTenantGotUnit(unitMap, tenantMap, c)
                      ELSE deleteTenantDelete(unitMap, tenantMap, c))

NextAsync ==
    \/ \E t \in InsertTenants(MaxUnits) :
          currentId.tenant <= MaxTenants /\ startCreateTenant(t)
    \/ \E id \in 1 .. MaxTenants, d \in PartialTenants(MaxUnits) :
          startUpdateTenant(id, d)
    \/ \E id \in 1 .. MaxTenants : startDeleteTenant(id)
    \/ resumeCreateTenant
    \/ resumeUpdateTenant
    \/ resumeDeleteTenant

SpecAsync == InitTenantOps /\ [][NextAsync]_vars

(***************************************************************************)
(* SpecNotify: notifications of two users are created while the clock      *)
(* advances, marked as read and deleted, and getNotificationsByUser is     *)
(* called in between.                                                      *)
(***************************************************************************)
\* The clock that new Date() reads advances.
Tick ==
    /\ clock < MaxClock
    /\ clock' = clock + 1
    /\ UNCHANGED <<store, issued, last, calls>>

\* A call of getNotificationsByUser: old is the stored map before the call.
\* A variant of callGetNotificationsByUser whose sort reorders the stored rows.
callGetNotificationsByUserInPlace(userId) ==
    /\ Returned("getNotificationsByUser", userId, NoFields, notificationMap,
                getNotificationsByUser(userId))
    /\ notificationMap' = SortNewestFirst(notificationMap)
    /\ UNCHANGED <<clock, userMap, propertyMap, unitMap, tenantMap, paymentMap,
                   currentId, issued, calls>>

callGetNotificationsByUser(userId) ==
    /\ Returned("getNotificationsByUser", userId, NoFields, notificationMap,
                getNotificationsByUser(userId))
    /\ UNCHANGED <<clock, store, issued, calls>>

NextNotify ==
    \/ Tick
    \/ \E u \in UserIds :
          /\ currentId.notification <= MaxNotifications
          /\ createNotification([userId |-> u, isRead |-> FALSE])
    \/ \E id \in 1 .. MaxNotifications : markNotificationAsRead(id)
    \/ \E id \in 1 .. MaxNotifications : deleteNotification(id)
    \/ \E u \in UserIds : callGetNotificationsByUser(u)

SpecNotify == Init /\ [][NextNotify]_vars

(***************************************************************************)
(* The dashboard specifications start from a store in which each landlord  *)
(* l has property l with unit l and tenant l in it, at an instant of the   *)
(* clock between 0 and MaxClock.  The n-th payment has amount 2^(n-1), so  *)
(* that a total tells which payments are in it.                            *)
(***************************************************************************)
SeedProperty(l) == [landlordId |-> l, id |-> l, createdAt |-> 0]

SeedUnit(l) == [propertyId |-> l, isOccupied |-> TRUE, id |-> l, createdAt |-> 0]

SeedTenant(l) ==
    [userId |-> l, unitId |-> l, isActive |-> TRUE, id |-> l, createdAt |-> 0]

SeedIds == [l \in 1 .. Cardinality(LandlordIds) |-> l]

InitDashboard ==
    /\ userMap = <<>>
    /\ propertyMap = [l \in 1 .. Cardinality(LandlordIds) |-> SeedProperty(l)]
    /\ unitMap = [l \in 1 .. Cardinality(LandlordIds) |-> SeedUnit(l)]
    /\ tenantMap = [l \in 1 .. Cardinality(LandlordIds) |-> SeedTenant(l)]
    /\ paymentMap = <<>>
    /\ notificationMap = <<>>
    /\ currentId = [t \in EntityTypes |->
                       IF t \in {"property", "unit", "tenant"}
                       THEN Cardinality(LandlordIds) + 1 ELSE 1]
    /\ issued = [t \in EntityTypes |->
                    IF t \in {"property", "unit", "tenant"} THEN SeedIds ELSE <<>>]
    /\ last = [op |-> "createTenant", id |-> Cardinality(LandlordIds),
               data |-> [userId |-> Cardinality(LandlordIds),
                         unitId |-> Cardinality(LandlordIds), isActive |-> TRUE],
               old |-> undefined, ret |-> SeedTenant(Cardinality(LandlordIds))]
    /\ calls = <<>>
    /\ clock \in 0 .. MaxClock

\* The amount of the next payment.
NextAmount == 2 ^ (currentId.payment - 1)

(***************************************************************************)
(* SpecIncome: payments of landlord 1's tenant are created, paid at dates  *)
(* in and around the months shown or not paid, all due in December 2024,   *)
(* and getDashboardData is called in between.                              *)
(***************************************************************************)
PaymentDates == {[time |-> t] : t \in {-24, -12, -10, -1, 1, 2, 4}}

IncomePayments ==
    {[tenantId |-> 1, amount |-> NextAmount, dueDate |-> 0,
      paymentDate |-> d, status |-> "paid"] : d \in PaymentDates \cup {null}}
    \cup {[tenantId |-> 1, amount |-> NextAmount, dueDate |-> 0,
           paymentDate |-> [time |-> 1], status |-> st] : st \in {"pending", "overdue"}}

NextIncome ==
    \/ \E p \in IncomePayments : currentId.payment <= MaxPayments /\ createPayment(p)
    \/ \E l \in LandlordIds : callGetDashboardData(l)

SpecIncome == InitDashboard /\ [][NextIncome]_vars

(***************************************************************************)
(* SpecTotals: payments of both landlords' tenants are created, in every   *)
(* status and due just before, at and just after the instant of the clock, *)
(* and getDashboardData is called in between.                              *)
(***************************************************************************)
PaymentStatuses == {"pending", "paid", "overdue"}

TotalsPayments ==
    {[tenantId |-> t, amount |-> NextAmount, dueDate |-> d, paymentDate |-> null,
      status |-> st] :
        t \in 1 .. Cardinality(LandlordIds), d \in {clock - 1, clock, clock + 1},
        st \in PaymentStatuses}

NextTotals ==
    \/ \E p \in TotalsPayments : currentId.payment <= MaxPayments /\ createPayment(p)
    \/ \E l \in LandlordIds : callGetDashboardData(l)

SpecTotals == InitDashboard /\ [][NextTotals]_vars

(***************************************************************************)
(* SpecActivity: payments are created as the clock goes on, the first for  *)
(* landlord 2's tenant and the others for landlord 1's, their statuses in  *)
(* turn, and getDashboardData is called in between.                        *)
(***************************************************************************)
StatusInTurn(n) ==
    IF n % 3 = 0 THEN "paid" ELSE IF n % 3 = 1 THEN "pending" ELSE "overdue"

ActivityPayment ==
    [tenantId |-> IF currentId.payment = 1 THEN 2 ELSE 1, amount |-> NextAmount,
     dueDate |-> 0, paymentDate |-> null, status |-> StatusInTurn(currentId.payment)]

NextActivity ==
    \/ Tick
    \/ currentId.payment <= MaxActivity /\ createPayment(ActivityPayment)
    \/ \E l \in LandlordIds : callGetDashboardData(l)

SpecActivity == InitDashboard /\ [][NextActivity]_vars

(***************************************************************************)
(* SpecStatus: payments of landlord 1's tenant are created pending and due *)
(* at instant 0, the clock goes on, payments are updated with and without  *)
(* a status, the tenant, its unit and its property are updated or deleted, *)
(* a notification is created, and the landlord's payments and dashboard    *)
(* are queried.                                                            *)
(***************************************************************************)
StatusPayment ==
    [tenantId |-> 1, amount |-> NextAmount, dueDate |-> 0, paymentDate |-> null,
     status |-> "pending"]

StatusPartials == PartialPayments \cup {[dueDate |-> 1]}

NextStatus ==
    \/ Tick
    \/ currentId.payment <= MaxRows /\ createPayment(StatusPayment)
    \/ \E id \in QueryIds, d \in StatusPartials : updatePayment(id, d)
    \/ updateTenant(1, [isActive |-> FALSE])
    \/ updateUnit(1, [isOccupied |-> FALSE])
    \/ deleteProperty(1)
    \/ \E n \in InsertNotifications :
          notificationMap = <<>> /\ createNotification(n)
    \/ callGetPaymentsByLandlord(1)
    \/ \E l \in LandlordIds : callGetDashboardData(l)

SpecStatus == InitDashboard /\ [][NextStatus]_vars

(***************************************************************************)
(* SpecFrame: on the seeded store, with user 1 stored, payments of         *)
(* landlord 1's tenant, the first paid and the later ones pending, and     *)
(* notifications of user 1 are created as the clock goes on, and every     *)
(* query of the storage is called in between.                              *)
(***************************************************************************)
SeedUser == [username |-> "tenant1", userType |-> "tenant", id |-> 1, createdAt |-> 0]

InitFrame ==
    /\ userMap = <<SeedUser>>
    /\ propertyMap = [l \in 1 .. Cardinality(LandlordIds) |-> SeedProperty(l)]
    /\ unitMap = [l \in 1 .. Cardinality(LandlordIds) |-> SeedUnit(l)]
    /\ tenantMap = [l \in 1 .. Cardinality(LandlordIds) |-> SeedTenant(l)]
    /\ paymentMap = <<>>
    /\ notificationMap = <<>>
    /\ currentId = [t \in EntityTypes |->
                       IF t \in {"property", "unit", "tenant"}
                       THEN Cardinality(LandlordIds) + 1
                       ELSE IF t = "user" THEN 2 ELSE 1]
    /\ issued = [t \in EntityTypes |->
                    IF t \in {"property", "unit", "tenant"} THEN SeedIds
                    ELSE IF t = "user" THEN <<1>> ELSE <<>>]
    /\ last = [op |-> "createTenant", id |-> Cardinality(LandlordIds),
               data |-> [userId |-> Cardinality(LandlordIds),
                         unitId |-> Cardinality(LandlordIds), isActive |-> TRUE],
               old |-> undefined, ret |-> SeedTenant(Cardinality(LandlordIds))]
    /\ calls = <<>>
    /\ clock = 0

FramePayment ==
    IF currentId.payment = 1
    THEN [tenantId |-> 1, amount |-> NextAmount, dueDate |-> 0,
          paymentDate |-> [time |-> 0], status |-> "paid"]
    ELSE [tenantId |-> 1, amount |-> NextAmount, dueDate |-> clock + 1,
          paymentDate |-> null, status |-> "pending"]

\* A call of a query that returns ret: the store is only read.
callGet(op, id, ret) ==
    /\ Returned(op, id, NoFields, [time |-> clock], ret)
    /\ UNCHANGED <<clock, store, issued, calls>>

callGetUserByUsername(username) ==
    /\ Returned("getUserByUsername", 0, [username |-> username], [time |-> clock],
                getUserByUsername(username))
    /\ UNCHANGED <<clock, store, issued, calls>>

NextFrame ==
    \/ Tick
    \/ currentId.payment <= MaxPayments /\ createPayment(FramePayment)
    \/ /\ currentId.notification <= MaxPayments
       /\ createNotification([userId |-> 1, isRead |-> FALSE])
    \/ \E id \in UserIds : callGet("getUser", id, getUser(id))
    \/ \E n \in {"tenant1", "tenant2"} : callGetUserByUsername(n)
    \/ \E id \in LandlordIds : callGet("getProperty", id, getProperty(id))
    \/ \E id \in LandlordIds : callGet("getUnit", id, getUnit(id))
    \/ \E id \in LandlordIds :
          callGet("getUnitsByProperty", id, getUnitsByProperty(id))
    \/ \E id \in LandlordIds : callGet("getTenant", id, getTenant(id))
    \/ \E id \in UserIds : callGet("getTenantByUserId", id, getTenantByUserId(id))
    \/ \E id \in LandlordIds : callGet("getPayment", id, getPayment(id))
    \/ \E id \in LandlordIds :
          callGet("getPaymentsByTenant", id, getPaymentsByTenant(id))
    \/ \E id \in UserIds : callGet("getNotification", id, getNotification(id))
    \/ \E l \in LandlordIds : callGetPropertiesByLandlord(l)
    \/ \E l \in LandlordIds : callGetTenantsByLandlord(l)
    \/ \E l \in LandlordIds : callGetPaymentsByLandlord(l)
    \/ \E u \in UserIds : callGetNotificationsByUser(u)
    \/ \E l \in LandlordIds : callGetDashboardData(l)

SpecFrame == InitFrame /\ [][NextFrame]_vars

(***************************************************************************)
(* SpecCascade: on the seeded store payments of both landlords' tenants    *)
(* and notifications are created, and properties, units, payments and      *)
(* notifications are deleted, stored or not, under the rows that refer to  *)
(* them.                                                                   *)
(***************************************************************************)
CascadeIds == 1 .. Cardinality(LandlordIds) + 1

NextCascade ==
    \/ \E p \in InsertPayments(Cardinality(LandlordIds)) :
          currentId.payment <= MaxPayments /\ createPayment(p)
    \/ \E n \in InsertNotifications :
          currentId.notification <= MaxRows /\ createNotification(n)
    \/ \E id \in CascadeIds : deleteProperty(id)
    \/ \E id \in CascadeIds : deleteUnit(id)
    \/ \E id \in CascadeIds : deletePayment(id)
    \/ \E id \in CascadeIds : deleteNotification(id)

SpecCascade == InitFrame /\ [][NextCascade]_vars

(***************************************************************************)
(* The HTTP routes.  A handler whose awaits are all calls of the storage   *)
(* runs from its first statement to its response before another request    *)
(* is read, so it is one action; last records the request (its route, its  *)
(* :id, its body and the session's user) and the response.  The routes     *)
(* start from a store in which users 1 and 2 are landlords, landlord l     *)
(* has property l with unit l, and tenant l, whose user is l + 2, rents    *)
(* unit l.                                                                 *)
(***************************************************************************)
RouteLandlord(l) ==
    [username |-> "landlord", userType |-> "landlord", id |-> l, createdAt |-> 0]

RouteTenantUser(l) ==
    [username |-> "tenant", userType |-> "tenant",
     id |-> l + Cardinality(LandlordIds), createdAt |-> 0]

RouteTenant(l) ==
    [userId |-> l + Cardinality(LandlordIds), unitId |-> l, isActive |-> TRUE,
     id |-> l, createdAt |-> 0]

InitRoutes ==
    /\ userMap = [i \in 1 .. 2 * Cardinality(LandlordIds) |->
                     IF i \in LandlordIds
                     THEN RouteLandlord(i)
                     ELSE RouteTenantUser(i - Cardinality(LandlordIds))]
    /\ propertyMap = [l \in 1 .. Cardinality(LandlordIds) |-> SeedProperty(l)]
    /\ unitMap = [l \in 1 .. Cardinality(LandlordIds) |-> SeedUnit(l)]
    /\ tenantMap = [l \in 1 .. Cardinality(LandlordIds) |-> RouteTenant(l)]
    /\ paymentMap = <<>>
    /\ notificationMap = <<>>
    /\ currentId = [t \in EntityTypes |->
                       IF t \in {"property", "unit", "tenant"}
                       THEN Cardinality(LandlordIds) + 1
                       ELSE IF t = "user"
                            THEN 2 * Cardinality(LandlordIds) + 1 ELSE 1]
    /\ issued = [t \in EntityTypes |->
                    IF t \in {"property", "unit", "tenant"} THEN SeedIds
                    ELSE IF t = "user"
                         THEN [i \in 1 .. 2 * Cardinality(LandlordIds) |-> i]
                         ELSE <<>>]
    /\ last = [op |-> "createTenant", id |-> Cardinality(LandlordIds),
               data |-> [userId |-> 2 * Cardinality(LandlordIds),
                         unitId |-> Cardinality(LandlordIds), isActive |-> TRUE],
               old |-> undefined, ret |-> RouteTenant(Cardinality(LandlordIds))]
    /\ calls = <<>>
    /\ clock = 0

\* The users whose sessions send requests: the landlords and a tenant.
SessionUsers == LandlordIds \cup {Cardinality(LandlordIds) + 1}

\* Ids a request names in its path: the seeded rows and one created later.
PathIds == 1 .. Cardinality(LandlordIds) + 1

\* req.isAuthenticated() && req.user?.userType === "landlord"
isLandlord(u) == getUser(u) # undefined /\ getUser(u).userType = "landlord"

\* req.isAuthenticated() && req.user?.userType === "tenant"
isTenant(u) == getUser(u) # undefined /\ getUser(u).userType = "tenant"

\* The response of a request: its status code and its JSON body.  row is
\* the stored row the request addresses, as it was when the request came.
Responded(op, u, id, body, row, status, json) ==
    Returned(op, id, body, [user |-> u, time |-> clock, row |-> row],
             [status |-> status, json |-> json])

\* A response sent before the handler wrote anything.
Rejected(op, u, id, body, status) ==
    /\ Responded(op, u, id, body, undefined, status, undefined)
    /\ UNCHANGED <<clock, store, issued, calls>>

\* The tenants after storage.updateTenant(id, tenantData).
tenantsAfterUpdateTenant(id, tenantData) ==
    IF getTenant(id) = undefined
    THEN tenantMap
    ELSE MapSet(tenantMap, id, Spread(getTenant(id), tenantData))

\* The units after storage.updateTenant(id, tenantData).
unitsAfterUpdateTenant(id, tenantData) ==
    LET tenant == getTenant(id)
    IN  IF tenant = undefined \/ ~unitIdChanges(tenant, tenantData)
        THEN unitMap
        ELSE LET released == oldUnitReleased(unitMap, tenantMap, id, tenant.unitId)
             IN  IF MapHas(unitMap, tenantData.unitId)
                 THEN MergedInto(released, tenantData.unitId,
                                 newUnitData(tenant, tenantData))
                 ELSE released

\* app.post("/api/properties/:propertyId/units")
postUnit(u, propertyId, body) ==
    LET op == "POST /api/properties/:propertyId/units"
        property == getProperty(propertyId)
        id == NextId("unit")
        unit == Spread(Spread(body, [propertyId |-> propertyId]),
                       [id |-> id, createdAt |-> clock])
    IN  IF ~isLandlord(u) THEN Rejected(op, u, propertyId, body, 403)
        ELSE IF property = undefined THEN Rejected(op, u, propertyId, body, 404)
        ELSE IF property.landlordId # u THEN Rejected(op, u, propertyId, body, 403)
        ELSE /\ unitMap' = MapSet(unitMap, id, unit)
             /\ Issue("unit", id)
             /\ Responded(op, u, propertyId, body, property, 201, unit)
             /\ UNCHANGED <<clock, userMap, propertyMap, tenantMap, paymentMap,
                            notificationMap, calls>>

\* app.delete("/api/units/:id")
deleteUnitRoute(u, id) ==
    LET op == "DELETE /api/units/:id"
        unit == getUnit(id)
        property == getProperty(unit.propertyId)
    IN  IF ~isLandlord(u) THEN Rejected(op, u, id, NoFields, 403)
        ELSE IF unit = undefined THEN Rejected(op, u, id, NoFields, 404)
        ELSE IF property = undefined \/ property.landlordId # u
        THEN Rejected(op, u, id, NoFields, 403)
        ELSE /\ unitMap' = MapDelete(unitMap, id)
             /\ Responded(op, u, id, NoFields, unit, 204, undefined)
             /\ UNCHANGED <<clock, userMap, propertyMap, tenantMap, paymentMap,
                            notificationMap, currentId, issued, calls>>

\* The salted hash of a password, which is not the password.
hashPassword(password) == [hashed |-> password]

\* The body of a POST /api/tenants that asks for a tenant of unit unitId.
PostTenantBody(unitId) ==
    [userData |-> [username |-> "tenant", password |-> "secret"],
     tenantData |-> [unitId |-> unitId, isActive |-> TRUE]]

\* app.post("/api/tenants") up to the await of hashPassword: the handler
\* has read the unit and its property, and waits for the hash, which a
\* later turn of the event loop delivers.
startPostTenant(u, body) ==
    LET op == "POST /api/tenants"
        unit == getUnit(body.tenantData.unitId)
        property == getProperty(unit.propertyId)
    IN  IF ~isLandlord(u) THEN Rejected(op, u, 0, body, 403)
        ELSE IF unit = undefined THEN Rejected(op, u, 0, body, 404)
        ELSE IF property = undefined \/ property.landlordId # u
        THEN Rejected(op, u, 0, body, 403)
        ELSE /\ calls' = Append(calls, [op |-> op, user |-> u, body |-> body])
             /\ UNCHANGED <<clock, store, issued, last>>

\* app.post("/api/tenants") from the hash on: createUser, then createTenant
\* with the new user's id, which marks the tenant's unit, if stored, occupied.
resumePostTenant ==
    \E i \in 1 .. Len(calls) :
        LET c == calls[i]
            userId == NextId("user")
            user == Spread(Spread(c.body.userData,
                                  [userType |-> "tenant",
                                   password |-> hashPassword(c.body.userData.password)]),
                           [id |-> userId, createdAt |-> clock])
            id == NextId("tenant")
            tenant == Spread(Spread(c.body.tenantData, [userId |-> userId]),
                             [id |-> id, createdAt |-> clock])
        IN  /\ calls' = SubSeq(calls, 1, i - 1) \o SubSeq(calls, i + 1, Len(calls))
            /\ userMap' = MapSet(userMap, userId, user)
            /\ tenantMap' = MapSet(tenantMap, id, tenant)
            /\ unitMap' = IF MapHas(unitMap, tenant.unitId)
                          THEN MergedInto(unitMap, tenant.unitId,
                                          createTenantUnitData(tenant))
                          ELSE unitMap
            /\ currentId' = [currentId EXCEPT !.user = @ + 1, !.tenant = @ + 1]
            /\ issued' = [issued EXCEPT !.user = Append(@, userId),
                                        !.tenant = Append(@, id)]
            /\ Responded(c.op, c.user, 0, c.body, undefined, 201,
                         [user |-> user, tenant |-> tenant])
            /\ UNCHANGED <<clock, propertyMap, paymentMap, notificationMap>>

\* A variant of deleteTenantRoute that removes the tenant's row.
deleteTenantRouteRemoving(u, id) ==
    LET op == "DELETE /api/tenants/:id"
        tenant == getTenant(id)
        unit == getUnit(tenant.unitId)
        property == getProperty(unit.propertyId)
    IN  IF ~isLandlord(u) THEN Rejected(op, u, id, NoFields, 403)
        ELSE IF tenant = undefined THEN Rejected(op, u, id, NoFields, 404)
        ELSE IF unit = undefined THEN Rejected(op, u, id, NoFields, 404)
        ELSE IF property = undefined \/ property.landlordId # u
        THEN Rejected(op, u, id, NoFields, 403)
        ELSE /\ tenantMap' = MapDelete(tenantMap, id)
             /\ unitMap' = oldUnitReleased(unitMap, tenantMap, id, tenant.unitId)
             /\ Responded(op, u, id, NoFields, tenant, 204, undefined)
             /\ UNCHANGED <<clock, userMap, propertyMap, paymentMap,
                            notificationMap, currentId, issued, calls>>

\* app.delete("/api/tenants/:id"): storage.updateTenant(id, { isActive: false })
deleteTenantRoute(u, id) ==
    LET op == "DELETE /api/tenants/:id"
        tenant == getTenant(id)
        unit == getUnit(tenant.unitId)
        property == getProperty(unit.propertyId)
    IN  IF ~isLandlord(u) THEN Rejected(op, u, id, NoFields, 403)
        ELSE IF tenant = undefined THEN Rejected(op, u, id, NoFields, 404)
        ELSE IF unit = undefined THEN Rejected(op, u, id, NoFields, 404)
        ELSE IF property = undefined \/ property.landlordId # u
        THEN Rejected(op, u, id, NoFields, 403)
        ELSE /\ tenantMap' = tenantsAfterUpdateTenant(id, [isActive |-> FALSE])
             /\ unitMap' = unitsAfterUpdateTenant(id, [isActive |-> FALSE])
             /\ Responded(op, u, id, NoFields, tenant, 204, undefined)
             /\ UNCHANGED <<clock, userMap, propertyMap, paymentMap,
                            notificationMap, currentId, issued, calls>>

\* The tenant data of a PUT /api/tenants/:id body: unitId, isActive or both.
PutTenantBodies ==
    {[unitId |-> n] : n \in PathIds} \cup {[isActive |-> a] : a \in BOOLEAN}

\* app.put("/api/tenants/:id"): storage.updateTenant(id, req.body)
putTenant(u, id, body) ==
    LET op == "PUT /api/tenants/:id"
        tenant == getTenant(id)
        unit == getUnit(tenant.unitId)
        property == getProperty(unit.propertyId)
    IN  IF ~isLandlord(u) THEN Rejected(op, u, id, body, 403)
        ELSE IF tenant = undefined THEN Rejected(op, u, id, body, 404)
        ELSE IF unit = undefined THEN Rejected(op, u, id, body, 404)
        ELSE IF property = undefined \/ property.landlordId # u
        THEN Rejected(op, u, id, body, 403)
        ELSE /\ tenantMap' = tenantsAfterUpdateTenant(id, body)
             /\ unitMap' = unitsAfterUpdateTenant(id, body)
             /\ Responded(op, u, id, body, tenant, 200, MapGet(tenantMap', id))
             /\ UNCHANGED <<clock, userMap, propertyMap, paymentMap,
                            notificationMap, currentId, issued, calls>>

\* JavaScript truthiness of an optional text field of a partial record.
TruthyText(data, f) == f \in DOMAIN data /\ data[f] # ""

\* The row a createNotification of the payment routes stores.
PaymentNotification(userId, message, id) ==
    [userId |-> userId, message |-> message, type |-> "payment", isRead |-> FALSE,
     id |-> id, createdAt |-> clock]

\* insertPaymentSchema.parse(req.body) accepts the body.
parsesAsPayment(body) == {"tenantId", "amount", "dueDate", "status"} \subseteq DOMAIN body

\* The bodies of POST /api/payments: one without the required fields, and a
\* payment of each tenant, stored or not, in each status.
PostPaymentBodies ==
    {NoFields}
    \cup {[tenantId |-> t, amount |-> NextAmount, dueDate |-> clock + 1,
           paymentDate |-> null, status |-> s] :
             t \in PathIds, s \in {"pending", "overdue"}}

\* app.post("/api/payments")
postPayment(u, body) ==
    LET op == "POST /api/payments"
        tenant == getTenant(body.tenantId)
        unit == getUnit(tenant.unitId)
        property == getProperty(unit.propertyId)
        id == NextId("payment")
        payment == Spread(body, [id |-> id, createdAt |-> clock])
        notificationId == NextId("notification")
    IN  IF ~isLandlord(u) THEN Rejected(op, u, 0, body, 403)
        ELSE IF ~parsesAsPayment(body) THEN Rejected(op, u, 0, body, 400)
        ELSE IF tenant = undefined THEN Rejected(op, u, 0, body, 404)
        ELSE IF unit = undefined THEN Rejected(op, u, 0, body, 404)
        ELSE IF property = undefined \/ property.landlordId # u
        THEN Rejected(op, u, 0, body, 403)
        ELSE /\ paymentMap' = MapSet(paymentMap, id, payment)
             /\ notificationMap' =
                    MapSet(notificationMap, notificationId,
                           PaymentNotification(tenant.userId, "due", notificationId))
             /\ currentId' = [currentId EXCEPT !.payment = @ + 1,
                                               !.notification = @ + 1]
             /\ issued' = [issued EXCEPT !.payment = Append(@, id),
                                         !.notification = Append(@, notificationId)]
             /\ Responded(op, u, 0, body, tenant, 201, payment)
             /\ UNCHANGED <<clock, userMap, propertyMap, unitMap, tenantMap, calls>>

\* if (req.body.status && req.body.status !== payment.status)
statusChanged(body, payment) ==
    TruthyText(body, "status") /\ body.status # payment.status

\* app.put("/api/payments/:id"): storage.updatePayment(id, req.body), and a
\* notification for the tenant's user if the status changed.
putPayment(u, id, body) ==
    LET op == "PUT /api/payments/:id"
        payment == getPayment(id)
        tenant == getTenant(payment.tenantId)
        unit == getUnit(tenant.unitId)
        property == getProperty(unit.propertyId)
        notificationId == NextId("notification")
    IN  IF ~isLandlord(u) THEN Rejected(op, u, id, body, 403)
        ELSE IF payment = undefined THEN Rejected(op, u, id, body, 404)
        ELSE IF tenant = undefined THEN Rejected(op, u, id, body, 404)
        ELSE IF unit = undefined THEN Rejected(op, u, id, body, 404)
        ELSE IF property = undefined \/ property.landlordId # u
        THEN Rejected(op, u, id, body, 403)
        ELSE /\ paymentMap' = MergedInto(paymentMap, id, body)
             /\ IF statusChanged(body, payment)
                THEN /\ notificationMap' =
                            MapSet(notificationMap, notificationId,
                                   PaymentNotification(tenant.userId, "status",
                                                       notificationId))
                     /\ Issue("notification", notificationId)
                ELSE UNCHANGED <<notificationMap, currentId, issued>>
             /\ Responded(op, u, id, body, payment, 200, MapGet(paymentMap', id))
             /\ UNCHANGED <<clock, userMap, propertyMap, unitMap, tenantMap, calls>>

\* A variant of mayProcess that lets every tenant pay every payment.
mayProcessAny(tenant, payment) == tenant # undefined

\* The tenant of the session's user may pay the payment:
\* the negation of (!tenant || tenant.id !== payment.tenantId).
mayProcess(tenant, payment) == tenant # undefined /\ tenant.id = payment.tenantId

\* What the process route writes into the payment.
processedPaymentData(body) ==
    [status |-> "paid", paymentDate |-> [time |-> clock],
     paymentMethod |-> IF TruthyText(body, "paymentMethod")
                       THEN body.paymentMethod ELSE "Credit Card"]

\* app.post("/api/payments/:id/process"): the payment is updated, then the
\* tenant's unit and its property are read and the tenant's user and the
\* landlord are notified.  unit!.propertyId of a unit that is not stored
\* and property!.landlordId of a property that is not stored throw, and the
\* handler answers 500 with what it wrote until then.
processPayment(u, id, body) ==
    LET op == "POST /api/payments/:id/process"
        payment == getPayment(id)
        tenant == getTenantByUserId(u)
        unit == getUnit(tenant.unitId)
        property == getProperty(unit.propertyId)
        first == NextId("notification")
        toTenant == MapSet(notificationMap, first,
                           PaymentNotification(tenant.userId, "processed", first))
        toBoth == MapSet(toTenant, first + 1,
                         PaymentNotification(property.landlordId, "received",
                                             first + 1))
    IN  IF ~isTenant(u) THEN Rejected(op, u, id, body, 403)
        ELSE IF payment = undefined THEN Rejected(op, u, id, body, 404)
        ELSE IF ~mayProcess(tenant, payment) THEN Rejected(op, u, id, body, 403)
        ELSE /\ paymentMap' = MergedInto(paymentMap, id, processedPaymentData(body))
             /\ notificationMap' =
                    IF unit = undefined THEN notificationMap
                    ELSE IF property = undefined THEN toTenant
                    ELSE toBoth
             /\ currentId' = [currentId EXCEPT !.notification =
                                 @ + Len(notificationMap') - Len(notificationMap)]
             /\ issued' = [issued EXCEPT !.notification =
                              @ \o [i \in 1 .. Len(notificationMap')
                                                 - Len(notificationMap) |->
                                       first + i - 1]]
             /\ IF unit = undefined \/ property = undefined
                THEN Responded(op, u, id, body, payment, 500, undefined)
                ELSE Responded(op, u, id, body, payment, 200, MapGet(paymentMap', id))
             /\ UNCHANGED <<clock, userMap, propertyMap, unitMap, tenantMap, calls>>

\* app.delete("/api/properties/:id")
deletePropertyRoute(u, id) ==
    LET op == "DELETE /api/properties/:id"
        property == getProperty(id)
    IN  IF ~isLandlord(u) THEN Rejected(op, u, id, NoFields, 403)
        ELSE IF property = undefined THEN Rejected(op, u, id, NoFields, 404)
        ELSE IF property.landlordId # u THEN Rejected(op, u, id, NoFields, 403)
        ELSE /\ propertyMap' = MapDelete(propertyMap, id)
             /\ Responded(op, u, id, NoFields, property, 204, undefined)
             /\ UNCHANGED <<clock, userMap, unitMap, tenantMap, paymentMap,
                            notificationMap, currentId, issued, calls>>

\* app.put("/api/properties/:id"): storage.updateProperty(id, req.body)
putProperty(u, id, body) ==
    LET op == "PUT /api/properties/:id"
        property == getProperty(id)
    IN  IF ~isLandlord(u) THEN Rejected(op, u, id, body, 403)
        ELSE IF property = undefined THEN Rejected(op, u, id, body, 404)
        ELSE IF property.landlordId # u THEN Rejected(op, u, id, body, 403)
        ELSE /\ propertyMap' = MergedInto(propertyMap, id, body)
             /\ Responded(op, u, id, body, property, 200, MapGet(propertyMap', id))
             /\ UNCHANGED <<clock, userMap, unitMap, tenantMap, paymentMap,
                            notificationMap, currentId, issued, calls>>

\* app.put("/api/units/:id"): storage.updateUnit(id, req.body)
putUnit(u, id, body) ==
    LET op == "PUT /api/units/:id"
        unit == getUnit(id)
        property == getProperty(unit.propertyId)
    IN  IF ~isLandlord(u) THEN Rejected(op, u, id, body, 403)
        ELSE IF unit = undefined THEN Rejected(op, u, id, body, 404)
        ELSE IF property = undefined \/ property.landlordId # u
        THEN Rejected(op, u, id, body, 403)
        ELSE /\ unitMap' = MergedInto(unitMap, id, body)
             /\ Responded(op, u, id, body, unit, 200, MapGet(unitMap', id))
             /\ UNCHANGED <<clock, userMap, propertyMap, tenantMap, paymentMap,
                            notificationMap, currentId, issued, calls>>

(***************************************************************************)
(* SpecRouteTenants: requests of both landlords and of a tenant create     *)
(* units, tenants and payments and delete units and tenants.  A POST       *)
(* /api/tenants waits for the password hash between its check of the unit  *)
(* and its writes, and other requests are handled while it waits.          *)
(***************************************************************************)
NextRouteTenants ==
    \/ \E u \in SessionUsers, p \in PathIds :
          Len(issued.unit) <= MaxUnits /\ postUnit(u, p, [isOccupied |-> FALSE])
    \/ \E u \in SessionUsers, id \in PathIds : deleteUnitRoute(u, id)
    \/ \E u \in SessionUsers, n \in PathIds :
          /\ Len(issued.tenant) + Len(calls) <= MaxUnits
          /\ startPostTenant(u, PostTenantBody(n))
    \/ resumePostTenant
    \/ \E u \in SessionUsers, id \in PathIds : deleteTenantRoute(u, id)
    \/ \E u \in SessionUsers, b \in PostPaymentBodies :
          currentId.payment <= MaxRows /\ postPayment(u, b)

SpecRouteTenants == InitRoutes /\ [][NextRouteTenants]_vars

(***************************************************************************)
(* SpecRouteDeactivate: requests of both landlords and of a tenant move,   *)
(* deactivate and reactivate the seeded tenants and delete units and       *)
(* properties under them.                                                  *)
(***************************************************************************)
NextRouteDeactivate ==
    \/ \E u \in SessionUsers, id \in PathIds : deleteTenantRoute(u, id)
    \/ \E u \in SessionUsers, id \in PathIds, b \in PutTenantBodies :
          putTenant(u, id, b)
    \/ \E u \in SessionUsers, id \in PathIds : deleteUnitRoute(u, id)
    \/ \E u \in SessionUsers, id \in PathIds : deletePropertyRoute(u, id)

SpecRouteDeactivate == InitRoutes /\ [][NextRouteDeactivate]_vars

(***************************************************************************)
(* SpecRouteNotify: landlords create payments and change their status, a   *)
(* tenant pays them, and units and properties are deleted under the        *)
(* tenants in between.                                                     *)
(***************************************************************************)
\* The bodies of PUT /api/payments/:id: no field, or a status, which the
\* route does not validate.
PutPaymentBodies ==
    {NoFields} \cup {[status |-> s] : s \in {"paid", "pending", "overdue", ""}}

\* The bodies of POST /api/payments/:id/process.
ProcessBodies == {NoFields, [paymentMethod |-> "ACH"]}

NextRouteNotify ==
    \/ \E u \in SessionUsers, b \in PostPaymentBodies :
          currentId.payment <= MaxRows /\ postPayment(u, b)
    \/ \E u \in SessionUsers, id \in PathIds, b \in PutPaymentBodies :
          currentId.notification <= MaxNotifications /\ putPayment(u, id, b)
    \/ \E u \in SessionUsers, id \in PathIds, b \in ProcessBodies :
          currentId.notification <= MaxNotifications /\ processPayment(u, id, b)
    \/ \E u \in SessionUsers, id \in PathIds : deleteUnitRoute(u, id)
    \/ \E u \in SessionUsers, id \in PathIds : deletePropertyRoute(u, id)

SpecRouteNotify == InitRoutes /\ [][NextRouteNotify]_vars

(***************************************************************************)
(* SpecRouteProcess: landlords create payments, the seeded tenants are     *)
(* given to the session's tenant user, who pays the payments, and units    *)
(* are deleted under the tenants in between.                               *)
(***************************************************************************)
\* The body of a PUT /api/tenants/:id that gives the tenant to a user.
PutTenantUserBodies == {[userId |-> Cardinality(LandlordIds) + 1]}

NextRouteProcess ==
    \/ \E u \in SessionUsers, b \in PostPaymentBodies :
          currentId.payment <= MaxRows /\ postPayment(u, b)
    \/ \E u \in SessionUsers, id \in PathIds, b \in ProcessBodies :
          currentId.notification <= MaxNotifications /\ processPayment(u, id, b)
    \/ \E u \in SessionUsers, id \in PathIds, b \in PutTenantUserBodies :
          putTenant(u, id, b)
    \/ \E u \in SessionUsers, id \in PathIds : deleteUnitRoute(u, id)

SpecRouteProcess == InitRoutes /\ [][NextRouteProcess]_vars

(***************************************************************************)
(* SpecRouteOwnership: the landlords send the PUT requests of properties,  *)
(* units, tenants and payments, with bodies that name the parent of the    *)
(* row, which the routes do not validate, on the seeded store and the      *)
(* payments the landlords create.                                          *)
(***************************************************************************)
PutPropertyBodies == {[landlordId |-> l] : l \in LandlordIds}

PutUnitBodies == {[propertyId |-> p] : p \in LandlordIds}

PutTenantUnitBodies == {[unitId |-> n] : n \in LandlordIds}

PutPaymentTenantBodies == {[tenantId |-> t] : t \in LandlordIds}

\* The bodies of the POST /api/payments that create the payments.
OwnedPaymentBodies ==
    {[tenantId |-> t, amount |-> NextAmount, dueDate |-> clock + 1,
      paymentDate |-> null, status |-> "pending"] : t \in LandlordIds}

NextRouteOwnership ==
    \/ \E u \in LandlordIds, b \in OwnedPaymentBodies :
          currentId.payment <= MaxRows /\ postPayment(u, b)
    \/ \E u \in LandlordIds, id \in LandlordIds, b \in PutPropertyBodies :
          putProperty(u, id, b)
    \/ \E u \in LandlordIds, id \in LandlordIds, b \in PutUnitBodies :
          putUnit(u, id, b)
    \/ \E u \in LandlordIds, id \in LandlordIds, b \in PutTenantUnitBodies :
          putTenant(u, id, b)
    \/ \E u \in LandlordIds, id \in LandlordIds, b \in PutPaymentTenantBodies :
          putPayment(u, id, b)

SpecRouteOwnership == InitRoutes /\ [][NextRouteOwnership]_vars

(***************************************************************************)
(* Occupancy of the units under the tenant calls.                          *)
(***************************************************************************)
\* Some stored active tenant other than tenant id references unit unitId.
ActiveTenantOn(unitId, id) ==
    \E i \in 1 .. Len(tenantMap) :
        /\ tenantMap[i].id # id
        /\ tenantMap[i].unitId = unitId
        /\ tenantMap[i].isActive

\* The last call was updateTenant on a stored tenant and changed its unitId.
TenantMoved ==
    /\ last.op = "updateTenant"
    /\ last.old # undefined
    /\ last.ret.unitId # last.old.unitId

\* C1: after any sequence of createTenant, updateTenant and deleteTenant
\* calls, every stored unit is occupied exactly when some stored active
\* tenant references it.
C1_OccupiedIffActiveTenant ==
    \A i \in 1 .. Len(unitMap) :
        unitMap[i].isOccupied <=> ActiveTenantOn(unitMap[i].id, 0)

\* C4: after createTenant for a tenant whose unitId is a stored unit, that
\* unit is occupied, whatever the tenant's isActive.
C4_CreateTenantOccupiesUnit ==
    (last.op = "createTenant" /\ MapHas(unitMap, last.ret.unitId))
        => getUnit(last.ret.unitId).isOccupied

C4_Witness ==
    /\ last.op = "createTenant"
    /\ MapHas(unitMap, last.ret.unitId)
    /\ ~last.ret.isActive
    /\ getUnit(last.ret.unitId).isOccupied

\* C5: after deleteTenant of a stored tenant of stored unit U, U is occupied
\* exactly when another stored active tenant still references U.
C5_DeleteTenantRecomputesUnit ==
    (last.op = "deleteTenant" /\ last.ret /\ MapHas(unitMap, last.old.unitId))
        => (getUnit(last.old.unitId).isOccupied
                <=> ActiveTenantOn(last.old.unitId, last.id))

\* C6: after updateTenant moves a tenant from stored unit A to another stored
\* unit B while no other tenant references A, A is free, B is occupied and
\* the tenant row's unitId is B.
C6_Case ==
    /\ TenantMoved
    /\ "unitId" \in DOMAIN last.data
    /\ MapHas(unitMap, last.old.unitId)
    /\ MapHas(unitMap, last.data.unitId)
    /\ \A i \in 1 .. Len(tenantMap) :
          tenantMap[i].id # last.id => tenantMap[i].unitId # last.old.unitId

C6_MoveFreesOldOccupiesNew ==
    C6_Case =>
        /\ ~getUnit(last.old.unitId).isOccupied
        /\ getUnit(last.data.unitId).isOccupied
        /\ getTenant(last.id).unitId = last.data.unitId

C6_Witness ==
    /\ C6_Case
    /\ last.old.isActive
    /\ ~getUnit(last.old.unitId).isOccupied
    /\ getUnit(last.data.unitId).isOccupied

\* C7: after updateTenant changes a tenant's unitId away from stored unit A,
\* A is occupied exactly when some other stored active tenant references A.
C7_OldUnitRecomputed ==
    (TenantMoved /\ MapHas(unitMap, last.old.unitId))
        => (getUnit(last.old.unitId).isOccupied
                <=> ActiveTenantOn(last.old.unitId, last.id))

\* C8: after updateTenant changes a tenant's unitId to a stored unit B, B
\* is occupied, also when the tenant is or becomes inactive.
C8_Case ==
    /\ TenantMoved
    /\ "unitId" \in DOMAIN last.data
    /\ MapHas(unitMap, last.data.unitId)

C8_NewUnitOccupied == C8_Case => getUnit(last.data.unitId).isOccupied

C8_Witness ==
    /\ C8_Case
    /\ last.old.isActive
    /\ "isActive" \in DOMAIN last.data
    /\ ~getTenant(last.id).isActive
    /\ getUnit(last.data.unitId).isOccupied

(***************************************************************************)
(* Id generation and updates of absent rows, over all entity types.        *)
(***************************************************************************)
UpdateOps ==
    {"updateProperty", "updateUnit", "updateTenant", "updatePayment",
     "updateNotification"}

\* The map an update call addresses.
UpdatedMap(op) ==
    CASE op = "updateProperty" -> propertyMap
      [] op = "updateUnit" -> unitMap
      [] op = "updateTenant" -> tenantMap
      [] op = "updatePayment" -> paymentMap
      [] op = "updateNotification" -> notificationMap

\* C2: the id a create call returns is greater than every id create returned
\* before for the same entity type and is 1 for the first row of the type,
\* also after updates and deletes, and the call leaves the next id of every
\* other type as it was.
C2_IdsIncreasePerType ==
    [][\A type \in EntityTypes :
          Len(issued'[type]) > Len(issued[type]) =>
              /\ last'.ret.id = issued'[type][Len(issued'[type])]
              /\ MapHas(MapOf(type)', last'.ret.id)
              /\ \A i \in 1 .. Len(issued[type]) : last'.ret.id > issued[type][i]
              /\ issued[type] = <<>> => last'.ret.id = 1
              /\ \A other \in EntityTypes \ {type} :
                    currentId'[other] = currentId[other]]_vars

C2_Witness ==
    \E type \in EntityTypes :
        /\ issued[type] = <<1, 2>>
        /\ ~MapHas(MapOf(type), 1)
        /\ last.old = undefined
        /\ last.ret = MapGet(MapOf(type), 2)
        /\ \E other \in EntityTypes \ {type} : issued[other] # <<>>

\* C9: an update call on an id that is not stored returns undefined and
\* leaves every map and every id counter as it was, also updateTenant with
\* the unitId of a stored unit.
C9_UpdateAbsentChangesNothing ==
    [][(last'.op \in UpdateOps /\ ~MapHas(UpdatedMap(last'.op), last'.id))
          => (last'.ret = undefined /\ store' = store)]_vars

C9_Witness ==
    /\ last.op = "updateTenant"
    /\ last.old = undefined
    /\ last.ret = undefined
    /\ MapHas(unitMap, last.data.unitId)
    /\ ~getUnit(last.data.unitId).isOccupied
    /\ tenantMap = <<>>

(***************************************************************************)
(* The payments a landlord sees.                                           *)
(***************************************************************************)
\* The landlord of the property of the unit of the tenant of a payment, or
\* 0 when a row on the way is not stored.
LandlordOf(payment) ==
    LET tenant == getTenant(payment.tenantId)
    IN  IF tenant = undefined THEN 0
        ELSE LET unit == getUnit(tenant.unitId)
             IN  IF unit = undefined THEN 0
                 ELSE LET property == getProperty(unit.propertyId)
                      IN  IF property = undefined THEN 0 ELSE property.landlordId

\* C3: every payment getPaymentsByLandlord(L) returns is stored and belongs
\* to a stored tenant whose unit's property has landlordId L, and no stored
\* payment of a tenant in another landlord's property is returned.
C3_PaymentsOfLandlordOnly ==
    last.op = "getPaymentsByLandlord" =>
        /\ \A i \in 1 .. Len(last.ret) :
              /\ MapHas(paymentMap, last.ret[i].id)
              /\ LandlordOf(last.ret[i]) = last.id
        /\ \A j \in 1 .. Len(paymentMap) :
              LandlordOf(paymentMap[j]) \in LandlordIds \ {last.id}
                  => ~MapHas(last.ret, paymentMap[j].id)

C3_Witness ==
    /\ last.op = "getPaymentsByLandlord"
    /\ \E j \in 1 .. Len(paymentMap) :
          /\ LandlordOf(paymentMap[j]) \in LandlordIds \ {last.id}
          /\ ~MapHas(last.ret, paymentMap[j].id)
          /\ MapHas(getPaymentsByLandlord(LandlordOf(paymentMap[j])), paymentMap[j].id)

(***************************************************************************)
(* Tenant calls in flight together.                                        *)
(***************************************************************************)
\* The suspended call c has read the store and has a write still to make.
MidMutation(c) ==
    ~(c.op = "createTenant" /\ (c.pc = "updateUnit" \/ c.unit = undefined))

\* C10: while a tenant call is suspended between its first read and its last
\* write of the store, no step of another call changes the store.
C10_TenantCallsNotInterleaved ==
    [][\A i \in 1 .. Len(calls) :
          (MidMutation(calls[i]) /\ \E j \in 1 .. Len(calls') : calls'[j] = calls[i])
              => store' = store]_vars

(***************************************************************************)
(* The tenants a landlord sees.                                            *)
(***************************************************************************)
\* The landlord of the property of the unit of a tenant, or 0 when a row on
\* the way is not stored.
LandlordOfTenant(tenant) ==
    LET unit == getUnit(tenant.unitId)
    IN  IF unit = undefined THEN 0
        ELSE LET property == getProperty(unit.propertyId)
             IN  IF property = undefined THEN 0 ELSE property.landlordId

DeleteOps ==
    {"deleteProperty", "deleteUnit", "deleteTenant", "deletePayment",
     "deleteNotification"}

\* The map an update or delete call addresses, before and after the call.
AddressedMap(op) ==
    CASE op \in {"updateProperty", "deleteProperty"} -> propertyMap
      [] op \in {"updateUnit", "deleteUnit"} -> unitMap
      [] op \in {"updateTenant", "deleteTenant"} -> tenantMap
      [] op \in {"updatePayment", "deletePayment"} -> paymentMap
      [] op \in {"updateNotification", "deleteNotification"} -> notificationMap

AddressedMapAfter(op) ==
    CASE op \in {"updateProperty", "deleteProperty"} -> propertyMap'
      [] op \in {"updateUnit", "deleteUnit"} -> unitMap'
      [] op \in {"updateTenant", "deleteTenant"} -> tenantMap'
      [] op \in {"updatePayment", "deletePayment"} -> paymentMap'
      [] op \in {"updateNotification", "deleteNotification"} -> notificationMap'

\* C19: a delete call returns true exactly when the id was stored just
\* before it, afterwards the id is not stored, and a delete of an id that is
\* not stored returns false and leaves every map and id counter as it was.
C19_DeleteReturnsWhetherStored ==
    [][last'.op \in DeleteOps =>
          /\ last'.ret = MapHas(AddressedMap(last'.op), last'.id)
          /\ MapGet(AddressedMapAfter(last'.op), last'.id) = undefined
          /\ ~MapHas(AddressedMap(last'.op), last'.id) => store' = store]_vars

C19_Witness ==
    /\ last.op = "deleteTenant"
    /\ last.ret = FALSE
    /\ tenantMap = <<>>
    /\ issued.tenant = <<>>
    /\ \E i \in 1 .. Len(unitMap) : unitMap[i].isOccupied

\* C20: an update call on a stored id stores and returns the row with every
\* field of the partial set as given and every other field, id and createdAt
\* included, as before; updateProperty, updateUnit, updatePayment and
\* updateNotification change no other row, no other map and no id counter.
C20_UpdateMergesShallowly ==
    [][(last'.op \in UpdateOps /\ MapHas(AddressedMap(last'.op), last'.id)) =>
          LET before == MapGet(AddressedMap(last'.op), last'.id)
              after == MapGet(AddressedMapAfter(last'.op), last'.id)
          IN  /\ last'.ret = after
              /\ DOMAIN after = DOMAIN before \cup DOMAIN last'.data
              /\ \A f \in DOMAIN last'.data : after[f] = last'.data[f]
              /\ \A f \in DOMAIN before \ DOMAIN last'.data : after[f] = before[f]
              /\ last'.op # "updateTenant" =>
                    /\ currentId' = currentId
                    /\ Len(AddressedMapAfter(last'.op)) = Len(AddressedMap(last'.op))
                    /\ \A i \in 1 .. Len(AddressedMap(last'.op)) :
                          AddressedMap(last'.op)[i].id # last'.id =>
                              AddressedMapAfter(last'.op)[i] = AddressedMap(last'.op)[i]
                    /\ \A type \in EntityTypes :
                          MapOf(type) # AddressedMap(last'.op) => MapOf(type)' = MapOf(type)]_vars

C20_Witness ==
    /\ last.op = "updateProperty"
    /\ last.old # undefined
    /\ last.old.landlordId # last.data.landlordId
    /\ last.ret.landlordId = last.data.landlordId
    /\ last.ret.createdAt = last.old.createdAt
    /\ last.ret.id = last.id
    /\ getProperty(last.id) = last.ret
    /\ \E i \in 1 .. Len(propertyMap) : propertyMap[i].id # last.id

(***************************************************************************)
(* The notifications a user sees.                                          *)
(***************************************************************************)
\* C18: getNotificationsByUser(u) returns the stored notifications of user
\* u, each once and no other row, every one with a createdAt not before that
\* of the one after it, and leaves the stored notifications and their order
\* as they were.
C18_NotificationsNewestFirst ==
    last.op = "getNotificationsByUser" =>
        /\ \A j \in 1 .. Len(notificationMap) :
              notificationMap[j].userId = last.id
                  <=> \E i \in 1 .. Len(last.ret) : last.ret[i] = notificationMap[j]
        /\ \A i \in 1 .. Len(last.ret) :
              /\ MapGet(notificationMap, last.ret[i].id) = last.ret[i]
              /\ \A k \in 1 .. Len(last.ret) : last.ret[k].id = last.ret[i].id => k = i
        /\ \A i \in 1 .. Len(last.ret) - 1 :
              last.ret[i].createdAt >= last.ret[i + 1].createdAt
        /\ notificationMap = last.old

C18_Witness ==
    /\ last.op = "getNotificationsByUser"
    /\ Len(last.ret) > 1
    /\ last.ret[1].createdAt > last.ret[Len(last.ret)].createdAt
    /\ Len(notificationMap) > Len(last.ret)
    /\ last.ret # SelectSeq(notificationMap, LAMBDA n : n.userId = last.id)

(***************************************************************************)
(* The dashboard: income by month.                                         *)
(***************************************************************************)
\* The stored payments of the tenants in the properties of a landlord.
PaymentsOf(landlordId) ==
    SelectSeq(paymentMap, LAMBDA p : LandlordOf(p) = landlordId)

\* The label of the month that lies back months before the month of today.
LabelOfMonthBefore(today, back) ==
    [monthName |-> (MonthsAt(today) - back) % 12,
     yearShort |-> ((MonthsAt(today) - back) \div 12) % 100]

\* The payments paid in the month that lies back months before today's.
PaidInMonthBefore(payments, today, back) ==
    SelectSeq(payments,
              LAMBDA p : /\ p.status = "paid"
                         /\ p.paymentDate # null
                         /\ MonthsAt(p.paymentDate.time) = MonthsAt(today) - back)

\* C11: monthlyIncome has 6 entries, the oldest first, the i-th for the
\* month 6 - i months before the current one, also across the turn of the
\* year, and all six are there with amount 0 when the landlord has no paid
\* payment.
C11_SixMonthsOldestFirst ==
    (last.op = "getDashboardData" /\ last.ret # TypeError) =>
        LET income == last.ret.monthlyIncome
        IN  /\ Len(income) = 6
            /\ \A i \in 1 .. Len(income) :
                  income[i].month = LabelOfMonthBefore(last.old.time, 6 - i)
            /\ (\A j \in 1 .. Len(PaymentsOf(last.id)) :
                      PaymentsOf(last.id)[j].status # "paid")
                  => \A i \in 1 .. Len(income) : income[i].amount = 0

C11_Witness ==
    /\ last.op = "getDashboardData"
    /\ getMonth(last.old.time) = 0
    /\ Len(last.ret.monthlyIncome) = 6
    /\ last.ret.monthlyIncome[1].month = [monthName |-> 7, yearShort |-> 24]
    /\ last.ret.monthlyIncome[5].month = [monthName |-> 11, yearShort |-> 24]
    /\ last.ret.monthlyIncome[6].month = [monthName |-> 0, yearShort |-> 25]
    /\ PaymentsOf(last.id) # <<>>
    /\ \A i \in 1 .. 6 : last.ret.monthlyIncome[i].amount = 0

\* C12: the amount of each monthlyIncome entry is the sum of the amounts of
\* the landlord's payments that are paid and have a paymentDate in the
\* entry's month and year, whatever their dueDate; the amounts of all
\* entries together are the sum over the paid payments dated in the six
\* months, each counted once.
C12_IncomeByPaymentDate ==
    (last.op = "getDashboardData" /\ last.ret # TypeError) =>
        LET income == last.ret.monthlyIncome
            today == last.old.time
            paidInWindow ==
                SelectSeq(PaymentsOf(last.id),
                          LAMBDA p : /\ p.status = "paid"
                                     /\ p.paymentDate # null
                                     /\ MonthsAt(today) - MonthsAt(p.paymentDate.time)
                                            \in 0 .. Len(income) - 1)
        IN  /\ \A i \in 1 .. Len(income) :
                  income[i].amount =
                      SumOfAmounts(PaidInMonthBefore(PaymentsOf(last.id), today,
                                                     Len(income) - i))
            /\ SumOfAmounts(income) = SumOfAmounts(paidInWindow)

C12_Witness ==
    /\ last.op = "getDashboardData"
    /\ getMonth(last.old.time) = 11
    /\ last.ret.monthlyIncome[5].amount > 0
    /\ last.ret.monthlyIncome[6].amount = 0
    /\ \E j \in 1 .. Len(PaymentsOf(last.id)) :
          LET p == PaymentsOf(last.id)[j]
          IN  /\ p.status = "paid"
              /\ p.paymentDate # null
              /\ getMonth(p.paymentDate.time) = 11
              /\ getMonth(p.dueDate) = 11

(***************************************************************************)
(* The dashboard: upcoming and overdue totals.                             *)
(***************************************************************************)
\* The ids of the payments in a list.
IdsOf(payments) == {payments[j].id : j \in 1 .. Len(payments)}

\* A payment's amount is part of a total: the amounts are distinct powers
\* of two, so a total is the set of its payments.
InTotal(total, payment) == (total \div payment.amount) % 2 = 1

\* C13: upcomingPaymentsTotal is the sum of the amounts of the landlord's
\* pending payments due strictly after the instant of the call, and
\* overduePaymentsTotal the sum of the amounts of the landlord's payments
\* that are overdue, whatever their dueDate, or pending and due strictly
\* before that instant; the landlord's payments are those of
\* getPaymentsByLandlord.
C13_UpcomingAndOverdueTotals ==
    (last.op = "getDashboardData" /\ last.ret # TypeError) =>
        LET now == last.old.time
            payments == PaymentsOf(last.id)
        IN  /\ IdsOf(payments) = IdsOf(getPaymentsByLandlord(last.id))
            /\ last.ret.upcomingPaymentsTotal =
                  SumOfAmounts(SelectSeq(payments,
                      LAMBDA p : p.status = "pending" /\ p.dueDate > now))
            /\ last.ret.overduePaymentsTotal =
                  SumOfAmounts(SelectSeq(payments,
                      LAMBDA p : \/ p.status = "overdue"
                                 \/ p.status = "pending" /\ p.dueDate < now))

C13_Witness ==
    /\ last.op = "getDashboardData"
    /\ last.ret.upcomingPaymentsTotal > 0
    /\ last.ret.overduePaymentsTotal > 0
    /\ \E j \in 1 .. Len(paymentMap) :
          /\ paymentMap[j].status = "overdue"
          /\ paymentMap[j].dueDate > last.old.time
          /\ InTotal(last.ret.overduePaymentsTotal, paymentMap[j])

\* C14: in one call no payment is part of both totals; a pending payment
\* due exactly at the instant of the call is part of neither, and a paid
\* payment is part of neither.
C14_TotalsDisjoint ==
    (last.op = "getDashboardData" /\ last.ret # TypeError) =>
        \A j \in 1 .. Len(paymentMap) :
            LET p == paymentMap[j]
                upcoming == InTotal(last.ret.upcomingPaymentsTotal, p)
                overdue == InTotal(last.ret.overduePaymentsTotal, p)
            IN  /\ ~(upcoming /\ overdue)
                /\ (p.status = "pending" /\ p.dueDate = last.old.time)
                      => ~upcoming /\ ~overdue
                /\ p.status = "paid" => ~upcoming /\ ~overdue

C14_Witness ==
    /\ last.op = "getDashboardData"
    /\ last.ret.upcomingPaymentsTotal = 0
    /\ last.ret.overduePaymentsTotal = 0
    /\ \E j \in 1 .. Len(PaymentsOf(last.id)) :
          /\ PaymentsOf(last.id)[j].status = "pending"
          /\ PaymentsOf(last.id)[j].dueDate = last.old.time
    /\ \E j \in 1 .. Len(PaymentsOf(last.id)) :
          PaymentsOf(last.id)[j].status = "paid"

(***************************************************************************)
(* The dashboard: tenant activity.                                         *)
(***************************************************************************)
\* C15: tenantActivity has min(10, n) of the n payments of
\* getPaymentsByLandlord, each once, ordered by createdAt descending, and no
\* payment left out was created later than one in it, whatever the statuses.
C15_TenMostRecentPayments ==
    (last.op = "getDashboardData" /\ last.ret # TypeError) =>
        LET activity == last.ret.tenantActivity
            payments == getPaymentsByLandlord(last.id)
            n == Len(payments)
        IN  /\ Len(activity) = IF n < 10 THEN n ELSE 10
            /\ IdsOf(activity) \subseteq IdsOf(payments)
            /\ Cardinality(IdsOf(activity)) = Len(activity)
            /\ \A i, j \in 1 .. Len(activity) :
                  i < j => activity[i].createdAt >= activity[j].createdAt
            /\ \A i \in 1 .. Len(activity) : \A j \in 1 .. n :
                  payments[j].id \notin IdsOf(activity)
                      => activity[i].createdAt >= payments[j].createdAt
            /\ \A i \in 1 .. Len(activity) : \E j \in 1 .. n :
                  activity[i] = payments[j]

C15_Witness ==
    /\ last.op = "getDashboardData"
    /\ Len(getPaymentsByLandlord(last.id)) = 11
    /\ Len(last.ret.tenantActivity) = 10
    /\ {last.ret.tenantActivity[i].status : i \in 1 .. 10} = PaymentStatuses
    /\ last.ret.tenantActivity[1].createdAt > last.ret.tenantActivity[10].createdAt
    /\ \E j \in 1 .. Len(paymentMap) :
          /\ paymentMap[j].tenantId = 1
          /\ paymentMap[j].id \notin IdsOf(last.ret.tenantActivity)
          /\ paymentMap[j].createdAt < last.ret.tenantActivity[10].createdAt

(***************************************************************************)
(* The landlord queries on a store with dangling references.               *)
(***************************************************************************)
\* C17: called in any state of the store, also with tenants whose unit and
\* units whose property are no longer stored, getPropertiesByLandlord,
\* getTenantsByLandlord, getPaymentsByLandlord and getDashboardData raise no
\* error for any landlord, and for a landlord without a stored property the
\* three lists are empty and the dashboard has zero counts, zero totals and
\* no activity.
C17_LandlordQueriesFailClosed ==
    /\ last.op = "getPropertiesByLandlord" => ~Raised(last.ret)
    /\ last.op = "getTenantsByLandlord" => ~Raised(last.ret)
    /\ last.op = "getPaymentsByLandlord" => ~Raised(last.ret)
    /\ last.op = "getDashboardData" => last.ret # TypeError
    /\ (\A j \in 1 .. Len(propertyMap) : propertyMap[j].landlordId # last.id)
          => /\ last.op \in {"getPropertiesByLandlord", "getTenantsByLandlord",
                             "getPaymentsByLandlord"} => last.ret = <<>>
             /\ last.op = "getDashboardData"
                   => /\ last.ret.propertiesCount = 0
                      /\ last.ret.tenantsCount = 0
                      /\ last.ret.upcomingPaymentsTotal = 0
                      /\ last.ret.overduePaymentsTotal = 0
                      /\ last.ret.properties = <<>>
                      /\ last.ret.tenantActivity = <<>>

C17_Witness ==
    /\ last.op = "getDashboardData"
    /\ last.ret.propertiesCount = 0
    /\ last.ret.tenantsCount = 0
    /\ last.ret.tenantActivity = <<>>
    /\ paymentMap # <<>>
    /\ \E j \in 1 .. Len(tenantMap) :
          MapGet(unitMap, tenantMap[j].unitId) = undefined

(***************************************************************************)
(* The status of a payment.                                                *)
(***************************************************************************)
\* C21: the status of a stored payment changes only in an updatePayment call
\* for that payment whose partial has a status: no other call and no tick of
\* the clock changes it, and a pending payment due in the past is still
\* stored as pending after getDashboardData has counted it as overdue.
C21_StatusChangesOnlyByUpdate ==
    [][\A id \in Ids(paymentMap) \cap Ids(paymentMap') :
          MapGet(paymentMap, id).status # MapGet(paymentMap', id).status
              => /\ last'.op = "updatePayment"
                 /\ last'.id = id
                 /\ "status" \in DOMAIN last'.data]_vars

C21_Witness ==
    /\ last.op = "getDashboardData"
    /\ last.ret.overduePaymentsTotal > 0
    /\ \E j \in 1 .. Len(paymentMap) :
          /\ paymentMap[j].status = "pending"
          /\ paymentMap[j].dueDate < last.old.time
          /\ InTotal(last.ret.overduePaymentsTotal, paymentMap[j])

(***************************************************************************)
(* A deleted tenant under calls in flight together.                        *)
(***************************************************************************)
\* C27: once deleteTenant(id) has returned true, which is the step that
\* takes the row of an issued id out of tenantMap, getTenant(id) is absent in
\* every later state, whatever calls are suspended at their awaits.
C27_DeletedTenantStaysAbsent ==
    [][\A i \in 1 .. Len(issued.tenant) :
          getTenant(issued.tenant[i]) = undefined
              => MapGet(tenantMap', issued.tenant[i]) = undefined]_vars

(***************************************************************************)
(* The units under an update of a tenant that does not move it.            *)
(***************************************************************************)
\* C26: an updateTenant call whose partial has no unitId, or has the unitId
\* the tenant already has, leaves every unit row as it was, also when the
\* partial sets isActive.
C26_UpdateWithoutMoveKeepsUnits ==
    [][(/\ last'.op = "updateTenant"
        /\ last'.old # undefined
        /\ \/ "unitId" \notin DOMAIN last'.data
           \/ last'.data.unitId = last'.old.unitId)
          => unitMap' = unitMap]_vars

C26_Witness ==
    /\ last.op = "updateTenant"
    /\ last.old # undefined
    /\ "unitId" \in DOMAIN last.data
    /\ last.data.unitId = last.old.unitId
    /\ "isActive" \in DOMAIN last.data
    /\ last.data.isActive
    /\ ~last.old.isActive
    /\ MapHas(unitMap, last.old.unitId)
    /\ ~getUnit(last.old.unitId).isOccupied

(***************************************************************************)
(* The queries only read.                                                  *)
(***************************************************************************)
QueryOps ==
    {"getUser", "getUserByUsername", "getProperty", "getPropertiesByLandlord",
     "getUnit", "getUnitsByProperty", "getTenant", "getTenantsByLandlord",
     "getTenantByUserId", "getPayment", "getPaymentsByTenant",
     "getPaymentsByLandlord", "getNotification", "getNotificationsByUser",
     "getDashboardData"}

\* The sum over the stored payments of a landlord, in stored order, that
\* were paid in the month that lies back months before today's.
PaidInStoredOrder(landlordId, today, back) ==
    SumOfAmounts(PaidInMonthBefore(PaymentsOf(landlordId), today, back))

\* C29: a call of a query leaves the six maps, rows and their order, and the
\* id counters as they were; and the sort inside getDashboardData leaves its
\* monthlyIncome and its totals what they are over the payments in stored
\* order.
C29_QueriesOnlyRead ==
    [][last'.op \in QueryOps =>
          /\ store' = store
          /\ issued' = issued
          /\ last'.op = "getDashboardData" =>
                /\ \A i \in 1 .. Len(last'.ret.monthlyIncome) :
                      last'.ret.monthlyIncome[i].amount =
                          PaidInStoredOrder(last'.id, last'.old.time,
                                            Len(last'.ret.monthlyIncome) - i)
                /\ last'.ret.upcomingPaymentsTotal =
                      SumOfAmounts(SelectSeq(PaymentsOf(last'.id),
                          LAMBDA p : p.status = "pending" /\ p.dueDate > last'.old.time))
                /\ last'.ret.overduePaymentsTotal =
                      SumOfAmounts(SelectSeq(PaymentsOf(last'.id),
                          LAMBDA p : \/ p.status = "overdue"
                                     \/ p.status = "pending" /\ p.dueDate < last'.old.time))]_vars

C29_Witness ==
    /\ last.op = "getNotificationsByUser"
    /\ Len(last.ret) > 1
    /\ last.ret[1].id > last.ret[2].id
    /\ last.ret[1].createdAt > last.ret[2].createdAt
    /\ notificationMap = last.old
    /\ notificationMap[1].createdAt < notificationMap[Len(notificationMap)].createdAt
    /\ paymentMap # <<>>

(***************************************************************************)
(* Deletes without cascade.                                                *)
(***************************************************************************)
\* The map after a delete of id when op addresses it, and else as it was.
WithoutRow(m, op, id) == IF last'.op = op THEN MapDelete(m, id) ELSE m

C22_DeleteTenantRouteDeactivates ==
    /\ [][last'.op = "DELETE /api/tenants/:id" /\ last'.ret.status = 204
             /\ (last' # last \/ store' # store)
          => /\ Ids(tenantMap') = Ids(tenantMap)
             /\ Len(tenantMap') = Len(tenantMap)
             /\ \A i \in 1 .. Len(tenantMap) :
                    tenantMap'[i] = IF tenantMap[i].id = last'.id
                                    THEN [tenantMap[i] EXCEPT !.isActive = FALSE]
                                    ELSE tenantMap[i]]_vars
    /\ [](last.op = "DELETE /api/tenants/:id" /\ last.ret.status = 204
          => /\ getTenant(last.id) = [last.old.row EXCEPT !.isActive = FALSE]
             /\ last.id \in Ids(getTenantsByLandlord(last.old.user)))

\* An owning landlord's DELETE of an active tenant was answered 204.
C22_Witness ==
    /\ last.op = "DELETE /api/tenants/:id"
    /\ last.ret.status = 204
    /\ last.old.row.isActive
    /\ getProperty(getUnit(last.old.row.unitId).propertyId).landlordId = last.old.user
    /\ ~getTenant(last.id).isActive
    /\ last.id \in Ids(getTenantsByLandlord(last.old.user))

(***************************************************************************)
(* Parents of the rows the routes create.                                  *)
(***************************************************************************)
\* C23: every unit, tenant and payment row that a route stores references,
\* when it is stored, rows that are stored: the unit's property, the
\* tenant's unit and user, the payment's tenant, however the requests that
\* create and delete rows interleave.
C23_CreatedRowsReferToStoredParents ==
    [][/\ \A i \in 1 .. Len(unitMap') :
              unitMap'[i].id \notin Ids(unitMap)
              => MapHas(propertyMap', unitMap'[i].propertyId)
       /\ \A i \in 1 .. Len(tenantMap') :
              tenantMap'[i].id \notin Ids(tenantMap)
              => /\ MapHas(unitMap', tenantMap'[i].unitId)
                 /\ MapHas(userMap', tenantMap'[i].userId)
       /\ \A i \in 1 .. Len(paymentMap') :
              paymentMap'[i].id \notin Ids(paymentMap)
              => MapHas(tenantMap', paymentMap'[i].tenantId)]_vars

(***************************************************************************)
(* Notifications of the payment routes.                                    *)
(***************************************************************************)
\* The rows a step appends to the notification store.
AddedNotifications ==
    SubSeq(notificationMap', Len(notificationMap) + 1, Len(notificationMap'))

\* The landlord of the property of the unit of a tenant.
LandlordOfUnitOf(tenant) == getProperty(getUnit(tenant.unitId).propertyId).landlordId

\* C24: a successful POST /api/payments creates exactly one notification,
\* for the user of the payment's tenant; a successful PUT /api/payments/:id
\* creates exactly one, for the tenant's user, if its body carries a status
\* other than the stored one, and none otherwise; a successful POST
\* /api/payments/:id/process creates exactly two, one for the tenant's user
\* and one for the landlord of the property of the tenant's unit; a request
\* answered 403 or 404 creates none.
C24_NotificationsPerPaymentRequest ==
    [][(last' # last \/ store' # store)
       /\ last'.op \in {"POST /api/payments", "PUT /api/payments/:id",
                        "POST /api/payments/:id/process"}
       => /\ SubSeq(notificationMap', 1, Len(notificationMap)) = notificationMap
          /\ CASE last'.op = "POST /api/payments" /\ last'.ret.status = 201 ->
                      /\ Len(AddedNotifications) = 1
                      /\ AddedNotifications[1].userId
                            = getTenant(last'.data.tenantId).userId
               [] last'.op = "PUT /api/payments/:id" /\ last'.ret.status = 200 ->
                      IF /\ "status" \in DOMAIN last'.data
                         /\ last'.data.status # getPayment(last'.id).status
                      THEN /\ Len(AddedNotifications) = 1
                           /\ AddedNotifications[1].userId
                                 = getTenant(getPayment(last'.id).tenantId).userId
                      ELSE AddedNotifications = <<>>
               [] /\ last'.op = "POST /api/payments/:id/process"
                  /\ last'.ret.status = 200 ->
                      LET tenant == getTenant(getPayment(last'.id).tenantId)
                      IN  /\ Len(AddedNotifications) = 2
                          /\ \E i, j \in 1 .. 2 :
                                /\ i # j
                                /\ AddedNotifications[i].userId = tenant.userId
                                /\ AddedNotifications[j].userId
                                      = LandlordOfUnitOf(tenant)
               [] last'.ret.status \in {403, 404} -> AddedNotifications = <<>>
               [] OTHER -> TRUE]_vars

(***************************************************************************)
(* POST /api/payments/:id/process.                                         *)
(***************************************************************************)
\* The first stored tenant, in insertion order, whose user is userId.
FirstTenantOf(userId) ==
    IF \E i \in 1 .. Len(tenantMap) : tenantMap[i].userId = userId
    THEN tenantMap[CHOOSE i \in 1 .. Len(tenantMap) :
                      /\ tenantMap[i].userId = userId
                      /\ \A j \in 1 .. i - 1 : tenantMap[j].userId # userId]
    ELSE undefined

OwnerOfProperty(property) == property.landlordId

OwnerOfUnit(pm, unit) ==
    IF MapHas(pm, unit.propertyId)
    THEN OwnerOfProperty(MapGet(pm, unit.propertyId)) ELSE 0

OwnerOfTenant(pm, um, tenant) ==
    IF MapHas(um, tenant.unitId)
    THEN OwnerOfUnit(pm, MapGet(um, tenant.unitId)) ELSE 0

OwnerOfPayment(pm, um, tm, payment) ==
    IF MapHas(tm, payment.tenantId)
    THEN OwnerOfTenant(pm, um, MapGet(tm, payment.tenantId)) ELSE 0

\* C28: a request of landlord L changes no property, unit, tenant or
\* payment row that belongs to another landlord, and leaves every row of
\* L's with L: a PUT of a tenant with a unitId does not change isOccupied
\* of a unit of another landlord's property, and a PUT of a property, unit
\* or payment does not set landlordId, propertyId or tenantId to one
\* outside what L owns.
C28_RequestsStayWithinOwnership ==
    [][(last' # last \/ store' # store) /\ isLandlord(last'.old.user)
       => LET L == last'.old.user
              others == LandlordIds \ {L}
          IN  /\ \A i \in 1 .. Len(propertyMap) :
                    LET row == propertyMap[i]
                        after == MapGet(propertyMap', row.id)
                    IN  /\ OwnerOfProperty(row) \in others => after = row
                        /\ OwnerOfProperty(row) = L /\ after # undefined
                           => OwnerOfProperty(after) \notin others
              /\ \A i \in 1 .. Len(unitMap) :
                    LET row == unitMap[i]
                        after == MapGet(unitMap', row.id)
                    IN  /\ OwnerOfUnit(propertyMap, row) \in others => after = row
                        /\ OwnerOfUnit(propertyMap, row) = L /\ after # undefined
                           => OwnerOfUnit(propertyMap', after) \notin others
              /\ \A i \in 1 .. Len(tenantMap) :
                    LET row == tenantMap[i]
                        after == MapGet(tenantMap', row.id)
                    IN  /\ OwnerOfTenant(propertyMap, unitMap, row) \in others
                           => after = row
                        /\ OwnerOfTenant(propertyMap, unitMap, row) = L
                              /\ after # undefined
                           => OwnerOfTenant(propertyMap', unitMap', after)
                                 \notin others
              /\ \A i \in 1 .. Len(paymentMap) :
                    LET row == paymentMap[i]
                        after == MapGet(paymentMap', row.id)
                    IN  /\ OwnerOfPayment(propertyMap, unitMap, tenantMap, row)
                              \in others
                           => after = row
                        /\ OwnerOfPayment(propertyMap, unitMap, tenantMap, row) = L
                              /\ after # undefined
                           => OwnerOfPayment(propertyMap', unitMap', tenantMap',
                                             after) \notin others]_vars

====
